------------------------------ MODULE Catalog -------------------------------
(***************************************************************************)
(* The catalog route of one account and one kind: how a shelf is selected  *)
(* (src/catalog/kinds.js), ordered, remembered and paged                   *)
(* (src/catalog/shelf.js, the route in index.js) while the lists it is     *)
(* made of are fetched again, evicted and emptied, the categories change   *)
(* and the featured period ends, each between two awaits of a request.     *)
(* What getCategories answers (module Categories) is any of Table.         *)
(*                                                                         *)
(* A list is an array with an identity: arrays[i] says what it holds and   *)
(* memo[i] what is remembered under it in the WeakMap of sorted views.     *)
(*                                                                         *)
(* An operator whose name starts with Fault is a seeded bug: nothing in    *)
(* the specification uses it.                                              *)
(***************************************************************************)
EXTENDS InsertionOrder, SequencesExt

CONSTANTS
    Request,
    Category,   \* category ids
    Genre,      \* the genres that are asked for
    Table,      \* the category lists getCategories may answer
    ItemId,
    Version,    \* the states of the panel's catalog that are told apart
    FullList,   \* the items of each
    Hash,       \* the featured hash of an item id in each period
    PageSize,   \* PAGE_SIZE
    Skip,       \* the skips that are asked for
    MaxArrays,  \* bound: how many lists are fetched
    MaxEpoch    \* bound: how many featured periods end

Item == [id : ItemId, cats : SUBSET Category, name : STRING, added : Nat, title : STRING]

ASSUME CatalogAssumption ==
    /\ PageSize \in Nat \ {0}
    /\ {MaxArrays, MaxEpoch} \subseteq Nat
    /\ ItemId \subseteq Nat /\ Skip \subseteq Nat /\ Genre \subseteq STRING
    /\ \A table \in Table : table \in Seq([id : Category, name : STRING])
    /\ FullList \in [Version -> Seq(Item)]
    /\ \A e \in 0..MaxEpoch : Hash[e] \in [ItemId -> Nat]

VARIABLES
    kind,       \* "movies", or "live", which matches category names and has no order
    arrays,     \* every list that was fetched
    full,       \* the index of the warm full list, 0 when cold
    own,        \* each category's own list, 0 before its first fetch
    memo,       \* sortedCatalogViews: for each array [epoch, views, selections]
    epoch,      \* featuredEpoch(Date.now())
    req         \* the requests

catalogVars == <<kind, arrays, full, own, memo, epoch, req>>

All == [ids |-> {}, name |-> "all"]
EmptyMap == [k \in {} |-> 0]
Put(map, k, v) == [x \in DOMAIN map \cup {k} |-> IF x = k THEN v ELSE map[x]]

NoMemo == [epoch |-> -1, views |-> EmptyMap, selections |-> EmptyMap]

(* want and order: the category ids that are wanted, as a set (with the    *)
(* name that is matched on the live shelf) and in the order in which they  *)
(* are asked; from: the list that each was answered with; all: the full    *)
(* list that served the request, if one did.                               *)
NoRequest ==
    [stage |-> "idle", epoch |-> 0, search |-> FALSE, variant |-> "new", genre |-> "",
     want |-> All, order |-> <<>>, from |-> EmptyMap, all |-> 0,
     items |-> <<>>, source |-> 0, skip |-> 0, page |-> <<>>]

CatalogInit ==
    /\ kind \in {"movies", "live"}
    /\ arrays = <<>> /\ memo = <<>>
    /\ full = 0
    /\ own = [c \in Category |-> 0]
    /\ epoch = 0
    /\ req = [r \in Request |-> NoRequest]

-----------------------------------------------------------------------------
(* Order and filters.                                                      *)

Before(variant, e, a, b) ==
    LET x == IF variant = "new" THEN b.added ELSE Hash[e][a.id]
        y == IF variant = "new" THEN a.added ELSE Hash[e][b.id]
    IN  x < y \/ (x = y /\ a.id < b.id)

(* Array.prototype.sort is stable: of two that the comparator does not     *)
(* tell apart (a panel may list an item twice) the first stays first.      *)
Precedes(s, variant, e, i, j) ==
    Before(variant, e, s[i], s[j]) \/ (~Before(variant, e, s[j], s[i]) /\ i <= j)

(* The list in order: each item at the place that counts those up to it.   *)
Place(s, variant, e, i) == Cardinality({j \in DOMAIN s : Precedes(s, variant, e, j, i)})

InOrder(s, variant, e) ==
    [n \in DOMAIN s |-> s[CHOOSE i \in DOMAIN s : Place(s, variant, e, i) = n]]

catalogVariant(q) == IF q.search THEN "new" ELSE q.variant

InCategories(item, ids) == item.cats \cap ids # {}

(* What a full list holds of a selection: by category id, and on the live  *)
(* shelf by category name for an item that has no id at all.               *)
Selected(k, item, want) ==
    \/ want = All
    \/ InCategories(item, want.ids)
    \/ k = "live" /\ item.cats = {} /\ item.name = want.name

Selection(k, s, want) == Kept(s, {i \in DOMAIN s : Selected(k, s[i], want)})

(* Each id once, where it was first.                                       *)
uniqueById(s) == Kept(s, {i \in DOMAIN s : \A j \in 1..(i - 1) : s[j].id # s[i].id})

-----------------------------------------------------------------------------
(* The memo under a list.  It is of one period: catalogMemoFor begins a    *)
(* new one for a request of another.                                       *)

FaultIsOf(m, e) == m.epoch # -1
IsOf(m, e) == m.epoch = e

MemoFor(i, e) == IF IsOf(memo[i], e) THEN memo[i] ELSE [NoMemo EXCEPT !.epoch = e]

SelectionOf(q) == q.want

ViewKey(q) == <<catalogVariant(q), SelectionOf(q)>>

(* sortedCatalogItems: the shelf in order, and the memo that it leaves.    *)
View(q) ==
    IF q.source # 0 /\ ViewKey(q) \in DOMAIN MemoFor(q.source, q.epoch).views
    THEN MemoFor(q.source, q.epoch).views[ViewKey(q)]
    ELSE InOrder(q.items, catalogVariant(q), q.epoch)

WithView(q) ==
    IF q.source = 0 \/ kind = "live" THEN memo
    ELSE [memo EXCEPT ![q.source] =
              [MemoFor(q.source, q.epoch) EXCEPT !.views = Put(@, ViewKey(q), View(q))]]

-----------------------------------------------------------------------------
(* A request is a search of the full list, or a shelf of one genre; one    *)
(* without a genre gets the first.                                         *)
Arrive(r) ==
    /\ req[r].stage = "idle"
    /\ \E search \in BOOLEAN, variant \in {"new", "featured"}, genre \in Genre \cup {""} :
           /\ search => kind = "movies" /\ variant = "new" /\ genre = ""
           /\ kind = "live" => variant = "new"
           /\ req' = [req EXCEPT ![r] =
                  [NoRequest EXCEPT !.stage = IF search THEN "list" ELSE "categories",
                                    !.epoch = epoch, !.search = search,
                                    !.variant = variant, !.genre = genre]]
    /\ UNCHANGED <<kind, arrays, full, own, memo, epoch>>

Select(r, q, items, source) ==
    req' = [req EXCEPT ![r] =
        [q EXCEPT !.stage = "selected", !.items = items, !.source = source]]

HasItems(items) == items # <<>>

(* The genre against a full list, remembered or filtered: the list serves  *)
(* it only when it has items for it, else the category itself is asked.    *)
(* What is remembered is not looked at again.                              *)
SelectFrom(r, q, i) ==
    LET remembered == IsOf(memo[i], q.epoch) /\ q.want \in DOMAIN memo[i].selections
        items == IF remembered THEN memo[i].selections[q.want]
                 ELSE Selection(kind, arrays[i], q.want)
    IN  IF remembered \/ HasItems(items)
        THEN /\ Select(r, [q EXCEPT !.all = i], items, i)
             /\ memo' = [memo EXCEPT ![i] =
                    [MemoFor(i, q.epoch) EXCEPT !.selections = Put(@, q.want, items)]]
        ELSE /\ req' = [req EXCEPT ![r] = [q EXCEPT !.stage = "lists"]]
             /\ UNCHANGED memo

(* The ids of every category with that name, each once.                    *)
IdsOf(table, genre) ==
    LET named == uniqueById(Kept(table, {i \in DOMAIN table : table[i].name = genre}))
    IN  [n \in DOMAIN named |-> named[n].id]

(* getCategories answers.  With no categories at all the shelf is the full *)
(* list; a genre that no category has is an empty answer.                  *)
CategoriesRead(r) ==
    /\ req[r].stage = "categories"
    /\ \E table \in Table :
        LET genre == IF req[r].genre # "" THEN req[r].genre ELSE table[1].name
            ids == IdsOf(table, genre)
            want == [ids |-> Members(ids), name |-> IF kind = "live" THEN genre ELSE ""]
            q == [req[r] EXCEPT !.want = want, !.order = ids, !.genre = ""]
        IN  \/ /\ table = <<>>
               /\ req' = [req EXCEPT ![r].stage = "list", ![r].genre = ""]
               /\ UNCHANGED memo
            \/ /\ table # <<>> /\ ids = <<>>
               /\ req' = [req EXCEPT ![r] = NoRequest]
               /\ UNCHANGED memo
            \/ /\ table # <<>> /\ ids # <<>>
               /\ IF kind = "movies" /\ full # 0 THEN SelectFrom(r, q, full)
                  ELSE /\ req' = [req EXCEPT ![r] =
                              [q EXCEPT !.stage = IF kind = "live" THEN "list" ELSE "lists"]]
                       /\ UNCHANGED memo
    /\ UNCHANGED <<kind, arrays, full, own, epoch>>

(* loadAll answers with the warm list.                                     *)
ListLoaded(r) ==
    /\ req[r].stage = "list"
    /\ full # 0
    /\ IF req[r].want = All
       THEN /\ Select(r, [req[r] EXCEPT !.all = full], arrays[full], full)
            /\ UNCHANGED memo
       ELSE SelectFrom(r, req[r], full)
    /\ UNCHANGED <<kind, arrays, full, own, epoch>>

ListsOf(q) == [n \in DOMAIN q.order |-> arrays[q.from[q.order[n]]]]

FaultMerged(q) ==
    [source |-> q.from[q.order[1]], items |-> uniqueById(FlattenSeq(ListsOf(q)))]

(* One list is a source of its own; several are merged into an array that  *)
(* nobody else will see.                                                   *)
Merged(q) ==
    IF Len(q.order) = 1
    THEN [source |-> q.from[q.order[1]], items |-> ListsOf(q)[1]]
    ELSE [source |-> 0, items |-> uniqueById(FlattenSeq(ListsOf(q)))]

(* getCategoryStreams answers for one of the ids, and for the last of them.*)
CategoryListLoaded(r, c) ==
    LET q == [req[r] EXCEPT !.from = Put(@, c, own[c])]
    IN  /\ req[r].stage = "lists"
        /\ c \in req[r].want.ids \ DOMAIN req[r].from
        /\ own[c] # 0
        /\ IF DOMAIN q.from = q.want.ids
           THEN Select(r, q, Merged(q).items, Merged(q).source)
           ELSE req' = [req EXCEPT ![r] = q]
        /\ UNCHANGED <<kind, arrays, full, own, memo, epoch>>

(* A fetch fails: the route answers an empty page.                         *)
LoadFails(r) ==
    /\ req[r].stage \in {"list", "lists"}
    /\ req' = [req EXCEPT ![r] = NoRequest]
    /\ UNCHANGED <<kind, arrays, full, own, memo, epoch>>

(* filterByName stops once it has the page; the page is cut from what it   *)
(* has found.                                                              *)
Page(s, skip) ==
    SubSeq(s, skip + 1, IF Len(s) < skip + PageSize THEN Len(s) ELSE skip + PageSize)

Titled(s, q) == IF q.search THEN Kept(s, {i \in DOMAIN s : s[i].title = "hit"}) ELSE s

AnswerPage(r) ==
    LET q == req[r]
        shelf == IF kind = "live" THEN q.items ELSE View(q)
    IN  /\ q.stage = "selected"
        /\ memo' = WithView(q)
        /\ \E skip \in Skip :
               req' = [req EXCEPT ![r] =
                   [q EXCEPT !.stage = "answered", !.skip = skip, !.items = <<>>, !.source = 0,
                             !.page = Page(Titled(shelf, q), skip)]]
        /\ UNCHANGED <<kind, arrays, full, own, epoch>>

-----------------------------------------------------------------------------
(* The lists and the clock.  A fetch makes a new array; a panel that works *)
(* for one call may answer the other with a transient empty list, and the  *)
(* order of either list is its own.                                        *)
NewArray(s) ==
    /\ Len(arrays) < MaxArrays
    /\ arrays' = Append(arrays, s)
    /\ memo' = Append(memo, NoMemo)
    /\ UNCHANGED <<kind, epoch, req>>

FetchFull ==
    /\ \E v \in Version : NewArray(FullList[v])
    /\ full' = Len(arrays')
    /\ UNCHANGED own

FetchList(c) ==
    /\ \E v \in Version :
           LET s == FullList[v]
           IN  NewArray(Reverse(Kept(s, {i \in DOMAIN s : c \in s[i].cats})))
    /\ own' = [own EXCEPT ![c] = Len(arrays')]
    /\ UNCHANGED full

(* The full list is evicted.  A category's own list that is evicted is     *)
(* fetched again by whoever asks for it, which FetchList is without it.    *)
EvictFull ==
    /\ full # 0
    /\ full' = 0
    /\ UNCHANGED <<kind, arrays, own, memo, epoch, req>>

PeriodEnds ==
    /\ epoch < MaxEpoch
    /\ epoch' = epoch + 1
    /\ UNCHANGED <<kind, arrays, full, own, memo, req>>

CatalogNext ==
    \/ \E r \in Request : \/ Arrive(r) \/ CategoriesRead(r) \/ ListLoaded(r)
                          \/ \E c \in Category : CategoryListLoaded(r, c)
                          \/ LoadFails(r) \/ AnswerPage(r)
    \/ FetchFull \/ \E c \in Category : FetchList(c)
    \/ EvictFull \/ PeriodEnds

CatalogSpec == CatalogInit /\ [][CatalogNext]_catalogVars

-----------------------------------------------------------------------------
(* t is s in order: its items, as often as s has them, none after one it   *)
(* comes before, and those the comparator does not tell apart as in s.     *)
Sorts(t, s, variant, e) ==
    /\ Len(t) = Len(s)
    /\ \E place \in [DOMAIN t -> DOMAIN s] :
           /\ \A n \in DOMAIN t : t[n] = s[place[n]]
           /\ \A m, n \in DOMAIN t : m < n =>
                  /\ place[m] # place[n]
                  /\ \/ Before(variant, e, t[m], t[n])
                     \/ ~Before(variant, e, t[n], t[m]) /\ place[m] < place[n]

(* Type invariant.  What is remembered under a list was made from it: each *)
(* selection is what the list holds of it, and is not empty; each view is  *)
(* all of the list, or a selection of it, in the order of the memo's own   *)
(* period.                                                                 *)
CatalogTypeOK ==
    /\ full \in 0..Len(arrays)
    /\ own \in [Category -> 0..Len(arrays)]
    /\ Len(memo) = Len(arrays)
    /\ \A r \in Request : req[r].epoch \in 0..epoch
    /\ \A i \in DOMAIN memo :
           /\ \A want \in DOMAIN memo[i].selections :
                  /\ memo[i].selections[want] = Selection(kind, arrays[i], want)
                  /\ memo[i].selections[want] # <<>>
           /\ \A key \in DOMAIN memo[i].views :
                  Sorts(memo[i].views[key], Selection(kind, arrays[i], key[2]),
                        key[1], memo[i].epoch)

(* A request has read the category lists themselves.                       *)
Asked(q) == q.all = 0

(* The shelf that the lists a request has read make, computed anew: the    *)
(* items it asks for, those of several lists each once, in the order of    *)
(* its variant in the period the request began in; a live shelf in the     *)
(* order of its lists.                                                     *)
Shelf(q) ==
    LET items == IF ~Asked(q) THEN Selection(kind, arrays[q.all], q.want)
                 ELSE IF Len(q.order) = 1 THEN ListsOf(q)[1]
                 ELSE uniqueById(FlattenSeq(ListsOf(q)))
    IN  Titled(IF kind = "live" THEN items
               ELSE InOrder(items, catalogVariant(q), q.epoch), q)

(* Every page is that shelf's: whatever other requests have remembered     *)
(* under the same lists, in this period or another, and whichever list has *)
(* replaced which meanwhile, no page mixes two orders, two selections or   *)
(* two lists (sortedCatalogViews, catalogViewKey, catalogMemoFor).  And a  *)
(* genre whose first page is empty was asked for by its own category: an   *)
(* empty or partial full list hides none ("a warm full list serves a genre *)
(* only when it has items for it").                                        *)
PageIsTheShelf ==
    \A r \in Request :
        LET q == req[r]
        IN  q.stage = "answered" =>
                /\ q.page = Page(Shelf(q), q.skip)
                /\ q.want # All /\ q.skip = 0 /\ q.page = <<>> => Asked(q)
=============================================================================
