---------------------------- MODULE Curriculum ----------------------------
(***************************************************************************)
(* The chapters of one course, the order of what is in them, and the pages *)
(* on which a provider drags them about.                                   *)
(*                                                                         *)
(* Code: App\Service\Course (chapters, acl_providerUpdateContentSort,      *)
(* acl_listContentOrder), the page course/curriculum.phtml and its partial *)
(* curriculum-provider.phtml.                                              *)
(*                                                                         *)
(* A tab shows the course as it was listed last.  After a drop it sends    *)
(* the whole arrangement as an object of objects, keyed by chapter id and  *)
(* by content id, and waits; then it lists the course again.  The service  *)
(* works through the object with one flush per row.                        *)
(*                                                                         *)
(* Contents and assessments are numbered separately.  A browser enumerates *)
(* the keys of an object as they were inserted, or integers first and      *)
(* ascending (as ECMAScript 2015 prescribes).  Ids are those of one course *)
(* and the provider may do what he does.                                   *)
(***************************************************************************)
EXTENDS Naturals, FiniteSets, Sequences

CONSTANTS
  MaxChapters,    \* bound: chapters ever added
  ContentIds,
  AssessmentIds,
  OldChapters,    \* chapters and items that were there before the first drop
  OldItems,
  Tabs,           \* pages that providers have open
  MaxCalls        \* bound: calls that change the course

Chapters   == 1 .. MaxChapters
Unassigned == 0
Items == ({"content"} \X ContentIds) \cup ({"assessment"} \X AssessmentIds)
Kind(i) == i[1]
Id(i)   == i[2]

(* What the constants of an instance satisfy. *)
CurriculumAssumption ==
  /\ MaxChapters \in Nat /\ OldChapters \in 0 .. MaxChapters
  /\ MaxCalls \in Nat
  /\ ContentIds \subseteq Nat /\ IsFiniteSet(ContentIds)
  /\ AssessmentIds \subseteq Nat /\ IsFiniteSet(AssessmentIds)
  /\ OldItems \subseteq Items

VARIABLES
  chapter,    \* [Chapters -> ..]: the table course_chapter; priority 0: null
  item,       \* [Items -> ..]: contents and assessments; order 0: null
  browser,    \* [Tabs -> {"inserted", "ascending"}]
  page,       \* [Tabs -> ..]: what a tab shows
  req,        \* [Tabs -> ..]: the request a tab waits for
  calls,      \* number of calls so far
  asked,      \* history: the arrangement last dropped and sent undisturbed
  disturbed   \* history: tabs since whose listing another changed the order

vars == <<chapter, item, browser, page, req, calls, asked, disturbed>>

Bounded(S) == UNION {[1 .. n -> S] : n \in 0 .. Cardinality(S)}
Groups     == [chapter : Chapters \cup {Unassigned}, items : Bounded(Items)]

Idle    == [op |-> "idle"]
Listings == [op : {"list"}, ready : BOOLEAN]
Sorts == [op : {"sort"}, groups : Seq(Groups), order : 0 .. MaxChapters + 1,
          todo : Bounded(Items), chapter : Chapters \cup {Unassigned},
          count : 0 .. Cardinality(Items)]
Deletions == [op : {"delete"}, chapter : Chapters, contents : SUBSET Items,
              detached : BOOLEAN]

NoPage == [groups |-> <<>>, ready |-> FALSE]
None   == <<>>

IsArrangement(a) ==
  /\ Len(a) <= MaxChapters + 1
  /\ \A k \in 1 .. Len(a) : a[k] \in Groups

TypeOK ==
  /\ chapter \in [Chapters -> [is : {"none", "there", "gone"},
                               priority : 0 .. MaxChapters + 1]]
  /\ item \in [Items -> [is : {"none", "there", "gone"},
                         chapter : Chapters \cup {Unassigned},
                         order : 0 .. Cardinality(Items)]]
  /\ \A i \in Items : item[i].chapter # Unassigned =>
       item[i].is = "there" /\ chapter[item[i].chapter].is = "there"
  /\ browser \in [Tabs -> {"inserted", "ascending"}]
  /\ \A t \in Tabs :
       /\ page[t].ready \in BOOLEAN
       /\ IsArrangement(page[t].groups) /\ IsArrangement(asked[t])
       /\ req[t] \in Sorts \cup Deletions \cup Listings \cup {Idle}
  /\ calls \in 0 .. MaxCalls
  /\ disturbed \subseteq Tabs

Init ==
  /\ chapter = [c \in Chapters |->
       [is |-> IF c <= OldChapters THEN "there" ELSE "none", priority |-> 0]]
  /\ item = [i \in Items |-> [is |-> IF i \in OldItems THEN "there" ELSE "none",
                              chapter |-> Unassigned, order |-> 0]]
  /\ browser \in [Tabs -> {"inserted", "ascending"}]
  /\ page = [t \in Tabs |-> NoPage]
  /\ req = [t \in Tabs |-> Idle]
  /\ calls = 0
  /\ asked = [t \in Tabs |-> None]
  /\ disturbed = {}

Called == calls < MaxCalls /\ calls' = calls + 1

(* Tab t changed the order: the other tabs show it as it was. *)
DisturbedBy(t) == disturbed' = disturbed \cup (Tabs \ {t})

-----------------------------------------------------------------------------
(* The listing. *)

Before(s, x, y) == \E k \in DOMAIN s : \E j \in 1 .. k - 1 : s[j] = x /\ s[k] = y

(* The ways to put S in the order of key: elements with the same key come  *)
(* in any order from the database, and from usort with a comparison that   *)
(* calls each of them the greater one.                                     *)
Ordered(S, key) ==
  {s \in [1 .. Cardinality(S) -> S] :
     \A j \in DOMAIN s : \A k \in 1 .. j - 1 :
       s[k] # s[j] /\ key[s[k]] <= key[s[j]]}

There == {c \in Chapters : chapter[c].is = "there"}

In(c) == {i \in Items : item[i].is = "there" /\ item[i].chapter = c}

OfKind(kind, c) ==
  LET S == {i \in In(c) : Kind(i) = kind} IN
  Ordered(S, [i \in S |-> item[i].order])

Shown == There \cup (IF In(Unassigned) = {} THEN {} ELSE {Unassigned})

Priority == [c \in Shown |-> IF c = Unassigned THEN 0 ELSE chapter[c].priority]

(* Contents come before assessments. *)
Lists(c) == {s \o r : s \in OfKind("content", c), r \in OfKind("assessment", c)}

(* What acl_listContentOrder may return. *)
listContentOrder ==
  LET items == {f \in [Shown -> UNION {Lists(c) : c \in Shown}] :
                  \A c \in Shown : f[c] \in Lists(c)}
  IN {[k \in DOMAIN cs |-> [chapter |-> cs[k], items |-> f[cs[k]]]] :
        cs \in Ordered(Shown, Priority), f \in items}

-----------------------------------------------------------------------------
(* The page. *)

(* A tab shows the listing.  Its chapters can be dragged and its empty     *)
(* chapters deleted when it is ready.                                      *)
Show(t, ready) ==
  /\ \E groups \in listContentOrder :
       page' = [page EXCEPT ![t] = [groups |-> groups, ready |-> ready]]
  /\ disturbed' = disturbed \ {t}

open(t) ==
  /\ req[t] = Idle
  /\ Show(t, TRUE)
  /\ asked' = [asked EXCEPT ![t] = None]
  /\ UNCHANGED <<chapter, item, browser, req, calls>>

Without(s, k)   == SubSeq(s, 1, k - 1) \o SubSeq(s, k + 1, Len(s))
With(s, k, e)   == SubSeq(s, 1, k - 1) \o <<e>> \o SubSeq(s, k, Len(s))
Places(s)       == 1 .. Len(s)

Holding(a, g, items) == [a EXCEPT ![g] = [chapter |-> a[g].chapter, items |-> items]]

(* An item is put down somewhere, or a chapter is. *)
ItemDropped(a, g, k, h, l) ==
  LET without == Holding(a, g, Without(a[g].items, k)) IN
  Holding(without, h, With(without[h].items, l, a[g].items[k]))

ItemDrops(a) ==
  {ItemDropped(a, d.from, d.at, d.to, d.before) :
     d \in {d \in [from : Places(a), at : 1 .. Cardinality(Items),
                   to : Places(a), before : 1 .. Cardinality(Items)] :
              /\ d.at \in Places(a[d.from].items)
              /\ d.before <= Len(a[d.to].items) + (IF d.from = d.to THEN 0 ELSE 1)}}

ChapterDrops(a) == {With(Without(a, g), h, a[g]) : g \in Places(a), h \in Places(a)}

(* The keys of an object into which ids were written in this order. *)
Enumerated(ids, how) ==
  LET S == {ids[k] : k \in DOMAIN ids}
      first == [d \in S |-> CHOOSE k \in DOMAIN ids :
                  ids[k] = d /\ \A j \in 1 .. k - 1 : ids[j] # d]
  IN CHOOSE s \in Ordered(S, IF how = "ascending" THEN [d \in S |-> d] ELSE first) : TRUE

(* Of items with the same id the type of the last is kept. *)
Last(items, d) ==
  LET k == CHOOSE k \in DOMAIN items :
             Id(items[k]) = d /\ \A j \in k + 1 .. Len(items) : Id(items[j]) # d
  IN items[k]

(* The object for one chapter. *)
Entries(g, how) ==
  LET ids == Enumerated([k \in DOMAIN g.items |-> Id(g.items[k])], how) IN
  [chapter |-> g.chapter, items |-> [k \in DOMAIN ids |-> Last(g.items, ids[k])]]

(* MUTANT of getContentArr: chapters without an item are left out. *)
getContentArr_of_filled(a, how) ==
  LET b  == SelectSeq(a, LAMBDA g : g.items # <<>>)
      cs == Enumerated([k \in DOMAIN b |-> b[k].chapter], how)
  IN [k \in DOMAIN cs |->
        Entries(b[CHOOSE j \in DOMAIN b : b[j].chapter = cs[k]], how)]

getContentArr(a, how) ==
  LET cs == Enumerated([k \in DOMAIN a |-> a[k].chapter], how) IN
  [k \in DOMAIN cs |->
     Entries(a[CHOOSE j \in DOMAIN a : a[j].chapter = cs[k]], how)]

(* A call of the service: what it has yet to work through. *)
SortRequest(groups, order, todo, c, count) ==
  [op |-> "sort", groups |-> groups, order |-> order, todo |-> todo,
   chapter |-> c, count |-> count]

submitSort(t) ==
  /\ req[t] = Idle /\ Called
  /\ \E a \in ItemDrops(page[t].groups) \cup
              (IF page[t].ready THEN ChapterDrops(page[t].groups) ELSE {}) :
       /\ page' = [page EXCEPT ![t].groups = a]
       /\ asked' = [asked EXCEPT ![t] = a]
       /\ req' = [req EXCEPT ![t] =
            SortRequest(getContentArr(a, browser[t]), 0, <<>>, Unassigned, 0)]
  /\ UNCHANGED <<chapter, item, browser, disturbed>>

(* The button is there for a chapter that is shown empty. *)
deleteChapter(t) ==
  /\ req[t] = Idle /\ page[t].ready /\ Called
  /\ \E k \in Places(page[t].groups) :
       LET c == page[t].groups[k].chapter IN
       /\ page[t].groups[k].items = <<>>
       /\ req' = [req EXCEPT ![t] =
            IF c \in There
            THEN [op |-> "delete", chapter |-> c, detached |-> FALSE,
                  contents |-> {i \in In(c) : Kind(i) = "content"}]
            ELSE [op |-> "list", ready |-> FALSE]]
  /\ asked' = [asked EXCEPT ![t] = None]
  /\ UNCHANGED <<chapter, item, browser, page, disturbed>>

(* MUTANT of relist: the tab goes on showing what was dropped. *)
relist_as_dropped(t) ==
  /\ req[t].op = "list"
  /\ disturbed' = disturbed \ {t}
  /\ req' = [req EXCEPT ![t] = Idle]
  /\ asked' = [asked EXCEPT ![t] = IF t \in disturbed THEN None ELSE @]
  /\ UNCHANGED <<chapter, item, browser, page, calls>>

(* Whatever the service answered, the tab lists the course.  After a       *)
(* deletion the new chapters are not made sortable and show no button.     *)
relist(t) ==
  /\ req[t].op = "list"
  /\ Show(t, req[t].ready)
  /\ req' = [req EXCEPT ![t] = Idle]
  /\ asked' = [asked EXCEPT ![t] = IF t \in disturbed THEN None ELSE @]
  /\ UNCHANGED <<chapter, item, browser, calls>>

-----------------------------------------------------------------------------
(* The service: acl_providerUpdateContentSort, a row at a time. *)

(* A group: its chapter, if there is one, gets the place of the group. *)
sort_chapter(t) ==
  /\ req[t].op = "sort" /\ req[t].todo = <<>> /\ req[t].groups # <<>>
  /\ LET g == Head(req[t].groups)
         n == req[t].order + 1
         found == g.chapter \in There
         c == IF found THEN g.chapter ELSE Unassigned
     IN /\ req' = [req EXCEPT ![t] = SortRequest(Tail(req[t].groups), n, g.items, c, 0)]
        /\ IF found /\ chapter[g.chapter].priority # n
           THEN chapter' = [chapter EXCEPT ![g.chapter].priority = n] /\ DisturbedBy(t)
           ELSE UNCHANGED <<chapter, disturbed>>
  /\ UNCHANGED <<item, browser, page, calls, asked>>

(* MUTANT of Placed: an item put among the unassigned keeps its chapter. *)
Placed_keeping(i, r) ==
  [is |-> "there", order |-> r.count + 1,
   chapter |-> IF r.chapter = Unassigned THEN item[i].chapter ELSE r.chapter]

(* The row of an item after request r. *)
Placed(i, r) == [is |-> "there", order |-> r.count + 1, chapter |-> r.chapter]

(* An item that is still there gets the next number and the chapter; the   *)
(* foreign key refuses a chapter that was deleted meanwhile (call_fails).  *)
sort_item(t) ==
  /\ req[t].op = "sort" /\ req[t].todo # <<>>
  /\ LET r == req[t]
         i == Head(r.todo)
         row == Placed(i, r)
         rest(n) == SortRequest(r.groups, r.order, Tail(r.todo), r.chapter, n)
     IN \/ /\ item[i].is = "there"
           /\ row.chapter \in There \cup {Unassigned}
           /\ req' = [req EXCEPT ![t] = rest(r.count + 1)]
           /\ item' = [item EXCEPT ![i] = row]
           /\ IF row = item[i] THEN UNCHANGED disturbed ELSE DisturbedBy(t)
        \/ /\ item[i].is # "there"
           /\ req' = [req EXCEPT ![t] = rest(r.count)]
           /\ UNCHANGED <<item, disturbed>>
  /\ UNCHANGED <<chapter, browser, page, calls, asked>>

sort_returns(t) ==
  /\ req[t].op = "sort" /\ req[t].todo = <<>> /\ req[t].groups = <<>>
  /\ req' = [req EXCEPT ![t] = [op |-> "list", ready |-> TRUE]]
  /\ UNCHANGED <<chapter, item, browser, page, calls, asked, disturbed>>

(* A flush is refused, or the process dies: what was flushed stays. *)
call_fails(t) ==
  /\ req[t].op \in {"sort", "delete"}
  /\ req' = [req EXCEPT ![t] = [op |-> "list", ready |-> req[t].op = "sort"]]
  /\ asked' = [asked EXCEPT ![t] = None]
  /\ UNCHANGED <<chapter, item, browser, page, calls, disturbed>>

-----------------------------------------------------------------------------
(* The service: the other calls. *)

(* acl_deleteChapter: the contents it loaded are detached in one flush. *)
deleteChapter_detach(t) ==
  /\ req[t].op = "delete" /\ ~req[t].detached
  /\ req' = [req EXCEPT ![t].detached = TRUE]
  /\ item' = [i \in Items |->
       IF i \in req[t].contents /\ item[i].is = "there"
       THEN [item[i] EXCEPT !.chapter = Unassigned] ELSE item[i]]
  /\ IF item' = item THEN UNCHANGED disturbed ELSE DisturbedBy(t)
  /\ UNCHANGED <<chapter, browser, page, calls, asked>>

(* MUTANT of deleteChapter_remove: no foreign key holds the chapter. *)
deleteChapter_remove_unchecked(t) ==
  /\ req[t].op = "delete" /\ req[t].detached
  /\ chapter' = [chapter EXCEPT ![req[t].chapter] = [is |-> "gone", priority |-> 0]]
  /\ req' = [req EXCEPT ![t] = [op |-> "list", ready |-> FALSE]]
  /\ DisturbedBy(t)
  /\ UNCHANGED <<item, browser, page, calls, asked>>

(* The chapter is removed.  Assessments are not detached: the foreign key  *)
(* of one, or of a content that came meanwhile, refuses it (call_fails).   *)
deleteChapter_remove(t) ==
  /\ req[t].op = "delete" /\ req[t].detached
  /\ LET c == req[t].chapter IN
     /\ In(c) = {}
     /\ chapter' = [chapter EXCEPT ![c] = [is |-> "gone", priority |-> 0]]
  /\ req' = [req EXCEPT ![t] = [op |-> "list", ready |-> FALSE]]
  /\ DisturbedBy(t)
  /\ UNCHANGED <<item, browser, page, calls, asked>>

acl_addChapter(c) ==
  /\ Called
  /\ chapter[c].is = "none" /\ \A d \in 1 .. c - 1 : chapter[d].is # "none"
  /\ chapter' = [chapter EXCEPT ![c].is = "there"]
  /\ UNCHANGED <<item, browser, page, req, asked, disturbed>>

(* A client of the service numbers the chapters that he names. *)
acl_updateChapterOrder(cs) ==
  /\ Called
  /\ LET found == {c \in There : \E k \in DOMAIN cs : cs[k] = c} IN
     chapter' = [c \in Chapters |->
       IF c \in found
       THEN [chapter[c] EXCEPT !.priority =
               Cardinality({d \in found : d = c \/ Before(cs, d, c)})]
       ELSE chapter[c]]
  /\ disturbed' = Tabs
  /\ UNCHANGED <<item, browser, page, req, asked>>

(* Contents and assessments come and go, by services of their own. *)
addItem(i) ==
  /\ Called
  /\ item[i].is = "none"
  /\ item' = [item EXCEPT ![i].is = "there"]
  /\ UNCHANGED <<chapter, browser, page, req, asked, disturbed>>

removeItem(i) ==
  /\ Called
  /\ item[i].is = "there"
  /\ item' = [item EXCEPT ![i] = [is |-> "gone", chapter |-> Unassigned, order |-> 0]]
  /\ UNCHANGED <<chapter, browser, page, req, asked, disturbed>>

-----------------------------------------------------------------------------
Orders == {cs \in Bounded(Chapters) :
             cs # <<>> /\ \A k \in DOMAIN cs : \A j \in 1 .. k - 1 : cs[j] # cs[k]}

Page(t) == open(t) \/ submitSort(t) \/ deleteChapter(t) \/ relist(t)

Service(t) ==
  \/ sort_chapter(t)
  \/ sort_item(t)
  \/ sort_returns(t)
  \/ deleteChapter_detach(t)
  \/ deleteChapter_remove(t)
  \/ call_fails(t)

Next ==
  \/ \E t \in Tabs : Page(t) \/ Service(t)
  \/ \E c \in Chapters : acl_addChapter(c)
  \/ \E cs \in Orders : acl_updateChapterOrder(cs)
  \/ \E i \in Items : addItem(i) \/ removeItem(i)

Spec == Init /\ [][Next]_vars

-----------------------------------------------------------------------------
Overwritten(items, k) == \E j \in k + 1 .. Len(items) : Id(items[j]) = Id(items[k])

Distinct(items) == \A k \in DOMAIN items : ~Overwritten(items, k)

ShownIn(t, i) == {page[t].groups[k].chapter : k \in {k \in Places(page[t].groups) :
                    \E j \in Places(page[t].groups[k].items) : page[t].groups[k].items[j] = i}}

(* After a drop the page shows each item in the chapter into which it was  *)
(* dropped, unless another changed the order or deleted a chapter          *)
(* meanwhile, or an item of the same id follows in the same chapter.       *)
(* Chapters and items that are added or removed meanwhile, sorts that died *)
(* half-way before, and the browser make no difference                     *)
(* (Course.php:312-384).                                                   *)
DroppedChapterShown ==
  \A t \in Tabs : req[t] = Idle =>
    \A g \in Places(asked[t]) : LET items == asked[t][g].items IN
      \A k \in DOMAIN items :
        Overwritten(items, k) \/ ShownIn(t, items[k]) \subseteq {asked[t][g].chapter}

ShowsOrder(t, kinds) ==
  LET cs == [k \in DOMAIN page[t].groups |-> page[t].groups[k].chapter] IN
  \A g \in Places(asked[t]) : LET items == asked[t][g].items
                                  c == asked[t][g].chapter IN
    /\ \A h \in 1 .. g - 1 : Unassigned \in {c, asked[t][h].chapter}
                             \/ Before(cs, asked[t][h].chapter, c)
    /\ Distinct(items) =>
         \A k \in DOMAIN items : \A j \in 1 .. k - 1 :
           {Kind(items[j]), Kind(items[k])} \in kinds
           /\ ShownIn(t, items[j]) # {} /\ ShownIn(t, items[k]) # {}
           => \E h \in Places(page[t].groups) :
                Before(page[t].groups[h].items, items[j], items[k])

Undisturbed(t) == req[t] = Idle /\ browser[t] = "inserted"

(* In a browser that enumerates keys as they were inserted, the page shows *)
(* the chapters, the contents of a chapter, and its assessments, in the    *)
(* order in which they were dropped (Course.php:336, 353, 375, 1251-1301).  *)
DroppedOrderKept ==
  \A t \in Tabs : Undisturbed(t) => ShowsOrder(t, {{"content"}, {"assessment"}})

(* "Upon updating the chapter numbers and lecture numbers should reflect   *)
(* their appropriate order" (curriculum-provider.phtml:4-6).               *)
DroppedOrderShown ==
  \A t \in Tabs : Undisturbed(t) =>
    ShowsOrder(t, {{"content"}, {"assessment"}, {"content", "assessment"}})

(* A chapter whose button is pressed on a page that nobody disturbed has   *)
(* nothing in it that would make the database refuse the deletion, though  *)
(* only contents are detached (Course.php:217-223, curriculum.phtml:142).  *)
EmptyIsDeletable ==
  \A t \in Tabs : req[t].op = "delete" /\ t \notin disturbed => In(req[t].chapter) = {}

=============================================================================
