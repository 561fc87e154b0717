----------------------------- MODULE ReadPaths -----------------------------
(***************************************************************************)
(* The reads.  A route reads the ids its gate needs, each in an await of   *)
(* its own, and then a page of rows, while other requests write what it    *)
(* has looked at already.  Routes differ in what they look at, in what a   *)
(* row without read[] means to them, and in how they order their pages: a  *)
(* route is the record of these.                                           *)
(*                                                                         *)
(* Rows hang on `top' (a project, a notification, or the group or project  *)
(* that lists them), a comment on a period `cp' of it as well.             *)
(***************************************************************************)
EXTENDS Naturals, SequencesExt

CONSTANTS Item,      \* the _ids of the rows
          Label,     \* ids of List entries, a row has one
          PageSize, LastPage,
          MaxWrites  \* bounds the model

ASSUME ItemAssumption == Item \subseteq Nat /\ IsFiniteSet(Item) /\ Label \subseteq Nat \ {0}
ASSUME PageAssumption == PageSize \in Nat \ {0} /\ LastPage \in Nat /\ MaxWrites \in Nat

VARIABLES top, cp,  \* what the rows hang on: a kind of read[]
          item,     \* the rows
          listed,   \* the rows a project's pins or a group's members name
          rankOf,   \* the order of the List's names
          reader,   \* the caller's request
          watch,    \* for the properties: what was readable while it ran
          writes    \* how many writes the other requests have made

readVars == <<top, cp, item, listed, rankOf, reader, watch, writes>>

\* A read[] names the public, or only staff, or is empty or absent.
Read == {"open", "shut", "empty", "absent"}
Kind == Read \cup {"gone"}

Caller == {"public", "staff", "other"}

-----------------------------------------------------------------------------
\* unreadableBy: a parent hides its children only by a read[] that is not
\* empty and names none of the caller's roles, `public' among them.
UnreadableBy(caller) == IF caller = "staff" THEN {} ELSE {"shut"}

\* A route: the levels it reads before the rows ("none", "top", "period" or
\* "list"), what hides `top', and the rows with it, from a caller, and whether a
\* comment goes with its period; whether it looks at the rows' read[], with
\* `public' added to the caller's roles, and the kinds of missing read[] it
\* lets pass; the order of a page, whether _id breaks its ties, and whether
\* read[] is looked at only when the page is cut; and its callers.
Plain == [gate |-> "none", hides |-> "nothing", strict |-> FALSE,
          own |-> TRUE, adds |-> FALSE, bare |-> {}, order |-> "none", tie |-> FALSE,
          late |-> FALSE, pages |-> FALSE, callers |-> Caller]

\* withIdTiebreak
Sorted(route, order) == [route EXCEPT !.order = order, !.tie = TRUE]

\* runDataQuery sorts only when it is asked to.
Queried(route) == {route, Sorted(route, "key")}
Public(route) == [route EXCEPT !.callers = {"public"}]
SignedIn(route) == [route EXCEPT !.callers = Caller \ {"public"}]
Paged(route) == [route EXCEPT !.pages = TRUE]

\* parentReadMatch: a row whose parent is gone keeps its own read[].
Gated(route) == [route EXCEPT !.gate = "top", !.hides = "parent"]
\* A comment: both levels gate it.
ByPeriod(route, strict) == [Gated(route) EXCEPT !.gate = "period", !.strict = strict]

Projects == {Public(Paged(Plain))} \cup {SignedIn(Paged(r)) : r \in Queried(Plain)}
Documents == {Public(Gated(Plain)), SignedIn(Gated(Plain))}
Comments == {Public(Paged(ByPeriod(r, TRUE))) : r \in Queried(Plain)}
              \cup {SignedIn(Paged(r)) : r \in Queried(Plain)}
Periods == {Public(Gated(r)) : r \in Queried(Plain)}
             \cup {SignedIn(Paged(Gated(r))) : r \in Queried(Plain)} \cup {SignedIn(Plain)}
Organizations == {Public(r) : r \in Queried(Plain)} \cup {SignedIn(r) : r \in Queried(Plain)}
Notifications == {SignedIn(Paged(r)) : r \in Queried(Plain)}
InspectionItems == {SignedIn(Plain)}

\* The home page's Updates: four, cut before $redact, and no tie is broken.
HomeUpdates == {[Public(Gated(Plain)) EXCEPT !.order = "key", !.late = TRUE]}

\* A missing project is a 404; staff get the documents without a look at read[].
FeaturedDocuments ==
  {[Public(Gated(Plain)) EXCEPT !.hides = "project"],
   [SignedIn(Plain) EXCEPT !.gate = "top", !.hides = "noProject", !.own = FALSE]}

\* The pins of a project: organizations, whatever their own read[] says.
PinsHide(caller) == {"gone"} \cup IF caller = "public" THEN {"shut", "empty"} ELSE {}
Pins == {[Paged(Plain) EXCEPT !.gate = "list", !.hides = "pins", !.own = FALSE,
                              !.order = o] : o \in {"none", "key"}}

\* The members of a group, which the caller must be able to read first.
GroupHides(caller) == Kind \ IF caller = "staff" THEN {"open", "shut"} ELSE {}
Members == {[SignedIn(Paged(r)) EXCEPT !.gate = "list", !.hides = "group"] : r \in Queried(Plain)}

\* The search adds `public', and its $redact lets an absent read[] pass.
Search == [Paged(Plain) EXCEPT !.adds = TRUE, !.bare = {"absent"}]
SearchOrders(route) == {Sorted(route, "id"), Sorted(route, "key")}
SearchOther == SearchOrders(Search)

\* Inspections, periods and Updates; an Update's gate comes before the page.
SearchGated == SearchOrders(Gated(Search))

\* Documents match an empty read[] too, but the public's must be `published'.
SearchDocuments ==
  UNION {SearchOrders(r) \cup {Sorted(r, "rank")} :
           r \in {[Public(Gated(Search)) EXCEPT !.bare = {}],
                  [SignedIn(Gated(Search)) EXCEPT !.bare = {"absent", "empty"}]}}

SearchList == {[Plain EXCEPT !.adds = TRUE, !.bare = {"absent", "empty"}, !.order = "key"]}

\* One record by its _id and schema.
SearchItem ==
  LET one == [Plain EXCEPT !.adds = TRUE]
  IN {one, Gated(one), Public(ByPeriod(one, TRUE)), SignedIn(ByPeriod(one, FALSE))}

Route == UNION {Projects, Documents, Comments, Periods, Organizations, Notifications,
                InspectionItems, HomeUpdates, FeaturedDocuments, Pins, Members,
                SearchOther, SearchGated, SearchDocuments, SearchList, SearchItem}

-----------------------------------------------------------------------------
Hides(route, caller) ==
  CASE route.hides = "parent" -> UnreadableBy(caller)
    [] route.hides = "project" -> UnreadableBy(caller) \cup {"gone"}
    [] route.hides = "noProject" -> {"gone"}
    [] route.hides = "pins" -> PinsHide(caller)
    [] route.hides = "group" -> GroupHides(caller)
    [] OTHER -> {}

TopHides(route, caller) == top \in Hides(route, caller)

\* Mutant of PeriodHides: a period is taken by its own read[] alone.
PeriodHidesOwn(route, caller, topHidden) ==
  IF cp = "gone" THEN route.strict ELSE cp \in UnreadableBy(caller)

\* The ids of the periods are read after those of their parents.
PeriodHides(route, caller, topHidden) ==
  IF cp = "gone" THEN route.strict ELSE cp \in UnreadableBy(caller) \/ topHidden

\* What a route makes of a row's own read[].
OwnPasses(route, caller, kind) ==
  /\ kind # "gone"
  /\ \/ ~route.own
     \/ kind = "open" /\ (caller # "other" \/ route.adds)
     \/ kind = "shut" /\ caller = "staff"
     \/ kind \in route.bare

Underway == reader.at \in {"top", "period", "rank", "query"}

\* What lets a row through at each of its levels, in this state; a comment whose
\* period is gone hangs on nothing.
NowReadable(route, caller) ==
  [top |-> ~TopHides(route, caller),
   orphan |-> route.gate = "period" /\ ~route.strict /\ cp = "gone",
   cp |-> route.gate = "period" => ~PeriodHides(route, caller, FALSE),
   ids |-> IF route.gate = "list" THEN listed ELSE Item,
   rows |-> {i \in Item : OwnPasses(route, caller, item[i].read)}]

Watched(now) == [ever |-> now, always |-> now]

\* One request: the first page, or the next of the same listing.
Ask(route, caller, page) ==
  /\ reader' = [reader EXCEPT !.at = IF route.gate = "none" THEN "query" ELSE "top",
                              !.route = route, !.caller = caller, !.page = page,
                              !.hidden = FALSE, !.ids = Item]
  /\ watch' = Watched(NowReadable(route, caller))
  /\ UNCHANGED <<top, cp, item, listed, rankOf, writes>>

Begin(route, caller) ==
  /\ reader.at = "idle" /\ caller \in route.callers
  /\ Ask(route, caller, 0)

NextPage ==
  /\ reader.at = "answered" /\ reader.route.pages /\ reader.page < LastPage
  /\ Ask(reader.route, reader.caller, reader.page + 1)

ReadOnly == UNCHANGED <<top, cp, item, listed, rankOf, watch, writes>>

\* unreadableParentIds, or the project or group that lists the rows.
LookTop ==
  LET route == reader.route IN
  /\ reader.at = "top"
  /\ reader' = [reader EXCEPT
       !.at = IF route.gate = "period" THEN "period" ELSE IF route.order = "rank" THEN "rank" ELSE "query",
       !.hidden = TopHides(route, reader.caller),
       !.ids = IF route.gate = "list" THEN listed ELSE Item]
  /\ ReadOnly

\* readablePeriodIds and unreadablePeriodIds
LookPeriod ==
  /\ reader.at = "period"
  /\ reader' = [reader EXCEPT !.at = "query",
                  !.hidden = PeriodHides(reader.route, reader.caller, @)]
  /\ ReadOnly

\* withSortRanks reads the List's names before the page.
LookRanks ==
  /\ reader.at = "rank"
  /\ reader' = [reader EXCEPT !.at = "query", !.ranks = rankOf]
  /\ ReadOnly

-----------------------------------------------------------------------------
\* What a row sorts by; a label that was no List entry ranks lowest.
Weight(i) ==
  CASE reader.route.order = "key" -> item[i].key
    [] reader.route.order = "rank" -> reader.ranks[item[i].key]
    [] OTHER -> 0

\* Mutant of Precedes: the sort leaves ties to Mongo.
PrecedesByKey(i, j) ==
  reader.route.order \in {"key", "rank"} /\ Weight(i) < Weight(j)

\* withIdTiebreak: the _id comes last in a sort, where the route adds it.
Precedes(i, j) ==
  \/ reader.route.order \in {"key", "rank"} /\ Weight(i) < Weight(j)
  \/ Weight(i) = Weight(j) /\ reader.route.tie /\ i < j

\* Mongo may return rows that the sort leaves equal in any order.
Orders(rows) ==
  {s \in SetToSeqs(rows) : \A n \in DOMAIN s : \A m \in 1..n - 1 : ~Precedes(s[n], s[m])}

\* The rows of one page, cut out of a sorted result.
Cut(s, page) ==
  {s[n] : n \in {n \in DOMAIN s : page * PageSize < n /\ n =< (page + 1) * PageSize}}

Matched == {i \in reader.ids : ~reader.hidden /\ item[i].read # "gone"}

\* The rows that pass their own read[]: before the page is cut, or after it.
Passing(rows) ==
  {i \in rows : OwnPasses(reader.route, reader.caller, item[i].read)}

\* An answer is kept as the set of its rows: which page a row falls on is what
\* the order decides.
Query ==
  LET rows == IF reader.route.late THEN Matched ELSE Passing(Matched)
      page(s) == IF reader.route.pages \/ reader.route.late THEN Cut(s, reader.page) ELSE rows
  IN /\ reader.at = "query"
     /\ \E s \in Orders(rows) :
          reader' = [reader EXCEPT !.at = "answered", !.total = Cardinality(rows),
                                   !.shown = Append(@, Passing(page(s)))]
     /\ ReadOnly

-----------------------------------------------------------------------------
\* Another request writes; what the reader may see changes with it.
Others(level, kind) ==
  /\ level # kind /\ writes < MaxWrites
  /\ writes' = writes + 1
  /\ reader' = [reader EXCEPT !.touched = @ \/ reader.at # "idle"]
  /\ LET now == NowReadable(reader.route, reader.caller)'
         ever == watch.ever
         always == watch.always
     IN watch' = IF ~Underway THEN watch ELSE
          [ever |-> [top |-> ever.top \/ now.top, orphan |-> ever.orphan \/ now.orphan,
                     cp |-> ever.cp \/ now.cp,
                     ids |-> ever.ids \cup now.ids, rows |-> ever.rows \cup now.rows],
           always |-> [top |-> always.top /\ now.top, orphan |-> always.orphan /\ now.orphan,
                       cp |-> always.cp /\ now.cp,
                       ids |-> always.ids \cap now.ids, rows |-> always.rows \cap now.rows]]

\* A project, notification or group is published, unpublished or taken away;
\* protectedPublishPin and protectedUnPublishPin do it to a project's pins.
WriteTop(kind) ==
  /\ top' = kind /\ UNCHANGED <<cp, item, listed, rankOf>>
  /\ Others(top, kind)

WritePeriod(kind) ==
  /\ cp' = kind /\ UNCHANGED <<top, item, listed, rankOf>>
  /\ Others(cp, kind)

WriteItem(i, kind) ==
  /\ item' = [item EXCEPT ![i].read = kind] /\ UNCHANGED <<top, cp, listed, rankOf>>
  /\ Others(item[i].read, kind)

\* protectedAddPins and protectedAddGroupMembers; protectedPinDelete and
\* protectedDeleteGroupMembers: an update each.
WriteList(ids) ==
  /\ listed' = ids /\ UNCHANGED <<top, cp, item, rankOf>>
  /\ Others(listed, ids)

\* A List entry is renamed, or taken away, and labels sort another way.
RenameLabel(l, n) ==
  /\ rankOf' = [rankOf EXCEPT ![l] = n] /\ UNCHANGED <<top, cp, item, listed>>
  /\ Others(rankOf[l], n)

-----------------------------------------------------------------------------
ReadInit ==
  /\ top = "open" /\ cp = "open"
  /\ item \in [Item -> [read : {"open"}, key : Label]]
  /\ listed = Item
  /\ rankOf = [l \in Label |-> l]
  /\ reader = [at |-> "idle", route |-> Plain, caller |-> "public", page |-> 0,
               hidden |-> FALSE, ids |-> Item, ranks |-> rankOf, total |-> 0,
               shown |-> <<>>, touched |-> FALSE]
  /\ watch = Watched(NowReadable(Plain, "public"))
  /\ writes = 0

ReadNext ==
  \/ \E route \in Route, caller \in Caller : Begin(route, caller)
  \/ NextPage \/ LookTop \/ LookPeriod \/ LookRanks \/ Query
  \/ \E kind \in Kind : WriteTop(kind) \/ WritePeriod(kind)
  \/ \E i \in Item, kind \in Kind : WriteItem(i, kind)
  \/ \E ids \in SUBSET Item : WriteList(ids)
  \/ \E l \in Label, n \in Label \cup {0} : RenameLabel(l, n)

ReadSpec == ReadInit /\ [][ReadNext]_readVars

-----------------------------------------------------------------------------
Levels == [top : BOOLEAN, orphan : BOOLEAN, cp : BOOLEAN, ids : SUBSET Item, rows : SUBSET Item]

ReadTypeOK ==
  /\ top \in Kind /\ cp \in Kind
  /\ item \in [Item -> [read : Kind, key : Label]]
  /\ listed \subseteq Item
  /\ rankOf \in [Label -> Label \cup {0}]
  /\ reader.at \in {"idle", "top", "period", "rank", "query", "answered"}
  /\ reader.route \in Route \cup {Plain} /\ reader.caller \in Caller
  /\ reader.ids \subseteq Item /\ reader.page \in 0..LastPage
  /\ reader.total \in 0..Cardinality(Item)
  /\ reader.shown \in Seq(SUBSET Item) /\ Len(reader.shown) =< LastPage + 1
  /\ watch \in [ever : Levels, always : Levels]
  /\ writes \in 0..MaxWrites

\* The levels above a row let it through: an orphan has none but its period,
\* which a strict route misses.
Through(levels) == levels.cp /\ (levels.top \/ levels.orphan)

\* Though a route looks at its levels one after the other, a row it shows was
\* let through at each of them at some moment of the request; and its count
\* leaves out no row that all of them let through all the time, and holds none
\* that its read[] hid all the time.
AnswersTrue ==
  reader.at = "answered" =>
    LET ever == watch.ever
        always == watch.always
        shown == Last(reader.shown)
    IN /\ shown # {} => Through(ever)
       /\ shown \subseteq ever.ids \cap ever.rows
       /\ Through(always) => reader.total >= Cardinality(always.ids \cap always.rows)
       /\ reader.route.late \/ reader.total =< Cardinality(ever.ids \cap ever.rows)

\* Of data that nobody changes, the pages of a listing are full but for the
\* last, and a listing whose ties _id breaks shows no row twice: with the total,
\* none is missed.
PagesPartition ==
  LET Left(n) == IF reader.total > (n - 1) * PageSize THEN reader.total - (n - 1) * PageSize ELSE 0
  IN reader.at = "answered" /\ reader.route.pages /\ ~reader.touched =>
       /\ \A n \in DOMAIN reader.shown :
            Cardinality(reader.shown[n]) = Min({Left(n), PageSize})
       /\ reader.route.tie =>
            \A m, n \in DOMAIN reader.shown :
              m # n => reader.shown[m] \cap reader.shown[n] = {}
=============================================================================
