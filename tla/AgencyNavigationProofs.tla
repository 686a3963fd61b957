------------------------ MODULE AgencyNavigationProofs ------------------------
(***************************************************************************)
(* Lemmas about the router (AgencyRoutes) and the links of the agency      *)
(* pages (AgencyNavigation): every link written for one of the agency      *)
(* pages resolves, by react-router's ranking, to that page.                *)
(*                                                                         *)
(* The one location two routes match is "principals/new": the form's      *)
(* route, all static, outranks the detail route's ":principalId" (scores   *)
(* 39 and 32).  A row's link "principals/<id>" matches the detail route    *)
(* alone because no id is "new" (NavIdsAssumption).                        *)
(***************************************************************************)
EXTENDS AgencyNavigation, TLAPS, SequenceTheorems, FiniteSetTheorems

USE NavIdsAssumption

\* A link written for an agency page opens it.
LinkOpens(l) == l.page \in RouteNames => RouteOf(l.to).name = l.page

\* `/${realm}/agency/${segs}`: the length and the segments of a location.
LEMMA LocAt ==
  ASSUME NEW S, NEW segs \in Seq(S), "realm" \in S, "agency" \in S
  PROVE  /\ Len(Loc(segs)) = 2 + Len(segs)
         /\ Loc(segs)[1] = "realm" /\ Loc(segs)[2] = "agency"
         /\ \A i \in 1..Len(segs) : Loc(segs)[2 + i] = segs[i]
<1>1. <<"realm", "agency">> \in Seq(S)
  OBVIOUS
<1>2. QED
  BY <1>1, ConcatProperties DEF Loc, CurrentRealm

LEMMA LocList ==
  /\ Len(Loc(<<"principals">>)) = 3
  /\ Loc(<<"principals">>)[1] = "realm" /\ Loc(<<"principals">>)[2] = "agency"
  /\ Loc(<<"principals">>)[3] = "principals"
<1> DEFINE S == {"realm", "agency", "principals"}
<1>1. <<"principals">> \in Seq(S) /\ "realm" \in S /\ "agency" \in S
  OBVIOUS
<1>2. /\ Len(Loc(<<"principals">>)) = 2 + Len(<<"principals">>)
      /\ Loc(<<"principals">>)[1] = "realm" /\ Loc(<<"principals">>)[2] = "agency"
      /\ \A i \in 1..Len(<<"principals">>) : Loc(<<"principals">>)[2 + i] = <<"principals">>[i]
  BY <1>1, LocAt
<1>3. QED
  BY <1>2
LEMMA LocDetail ==
  ASSUME NEW p
  PROVE  /\ Len(Loc(<<"principals", p>>)) = 4
         /\ Loc(<<"principals", p>>)[1] = "realm" /\ Loc(<<"principals", p>>)[2] = "agency"
         /\ Loc(<<"principals", p>>)[3] = "principals" /\ Loc(<<"principals", p>>)[4] = p
<1> DEFINE S == {"realm", "agency", "principals", p}
<1>1. <<"principals", p>> \in Seq(S)
  OBVIOUS
<1>2. "realm" \in S /\ "agency" \in S
  OBVIOUS
<1>3. /\ Len(Loc(<<"principals", p>>)) = 2 + Len(<<"principals", p>>)
      /\ Loc(<<"principals", p>>)[1] = "realm" /\ Loc(<<"principals", p>>)[2] = "agency"
      /\ \A i \in 1..Len(<<"principals", p>>) : Loc(<<"principals", p>>)[2 + i] = <<"principals", p>>[i]
  BY <1>1, <1>2, LocAt
<1>4. QED
  BY <1>3
LEMMA RoutesDomain == DOMAIN Routes = 1..5
BY DEF Routes

LEMMA ListRoute == RouteOf(Loc(<<"principals">>)).name = "list"
<1>1. ASSUME NEW i \in 1..5 PROVE Matches(Routes[i].path, Loc(<<"principals">>)) <=> i = 2
  <2>1. CASE i \in {1, 3, 4, 5}
    <3>1. Len(Routes[i].path) # 3
      BY <2>1 DEF Routes
    <3>2. QED
      BY <2>1, <3>1, LocList DEF Matches
  <2>2. CASE i = 2
    BY <2>2, LocList DEF Routes, Matches, IsParam, Par, Lit
  <2>3. QED
    BY <2>1, <2>2
<1>2. {i \in DOMAIN Routes : Matches(Routes[i].path, Loc(<<"principals">>))} = {2}
  BY <1>1, RoutesDomain
<1>3. Routes[2].name = "list"
  BY DEF Routes
<1>4. QED
  BY <1>2, <1>3 DEF RouteOf

LEMMA DetailRoute ==
  ASSUME NEW p, p # "new" PROVE RouteOf(Loc(<<"principals", p>>)).name = "detail"
<1>1. ASSUME NEW i \in 1..5 PROVE Matches(Routes[i].path, Loc(<<"principals", p>>)) <=> i = 4
  <2>1. CASE i \in {1, 2, 5}
    <3>1. Len(Routes[i].path) # 4
      BY <2>1 DEF Routes
    <3>2. QED
      BY <2>1, <3>1, LocDetail DEF Matches
  <2>4. CASE i = 3
    <3>1. Routes[3].path[4] = Lit("new") /\ ~IsParam(Lit("new")) /\ Lit("new").lit = "new"
      BY DEF Routes, IsParam, Lit
    <3>2. 4 \in 1..Len(Routes[3].path)
      BY DEF Routes
    <3>3. QED
      BY <2>4, <3>1, <3>2, LocDetail DEF Matches
  <2>2. CASE i = 4
    BY <2>2, LocDetail DEF Routes, Matches, IsParam, Par, Lit
  <2>3. QED
    BY <2>1, <2>2, <2>4
<1>2. {i \in DOMAIN Routes : Matches(Routes[i].path, Loc(<<"principals", p>>))} = {4}
  BY <1>1, RoutesDomain
<1>3. Routes[4].name = "detail"
  BY DEF Routes
<1>4. QED
  BY <1>2, <1>3 DEF RouteOf

LEMMA CreateScore == Score(Routes[3].path) = 39
<1> DEFINE tpl == Routes[3].path
<1>1. Len(tpl) = 4
  BY DEF Routes
<1>2. {i \in 1..Len(tpl) : ~IsParam(tpl[i])} = 2..4
  BY <1>1 DEF Routes, IsParam, Par, Lit
<1>3. {i \in 1..Len(tpl) : IsParam(tpl[i])} = 1..1
  BY <1>1 DEF Routes, IsParam, Par, Lit
<1>4. Cardinality(2..4) = 3 /\ Cardinality(1..1) = 1
  <2>1. Cardinality(2..4) = IF 2 > 4 THEN 0 ELSE 4 - 2 + 1
    <3>1. 2 \in Int /\ 4 \in Int
      OBVIOUS
    <3>2. QED
      BY <3>1, FS_Interval, Zenon
  <2>2. Cardinality(1..1) = IF 1 > 1 THEN 0 ELSE 1 - 1 + 1
    <3>1. 1 \in Int /\ 1 \in Int
      OBVIOUS
    <3>2. QED
      BY <3>1, FS_Interval, Zenon
  <2>3. QED
    BY <2>1, <2>2
<1>5. QED
  BY <1>1, <1>2, <1>3, <1>4 DEF Score

LEMMA DetailScore == Score(Routes[4].path) = 32
<1> DEFINE tpl == Routes[4].path
<1>1. Len(tpl) = 4
  BY DEF Routes
<1>2. {i \in 1..Len(tpl) : ~IsParam(tpl[i])} = 2..3
  BY <1>1 DEF Routes, IsParam, Par, Lit
<1>3. {i \in 1..Len(tpl) : IsParam(tpl[i])} = {1} \cup {4}
  BY <1>1 DEF Routes, IsParam, Par, Lit
<1>4. Cardinality(2..3) = 2 /\ Cardinality({1} \cup {4}) = 2
  <2>1. Cardinality(2..3) = IF 2 > 3 THEN 0 ELSE 3 - 2 + 1
    <3>1. 2 \in Int /\ 3 \in Int
      OBVIOUS
    <3>2. QED
      BY <3>1, FS_Interval, Zenon
  <2>2. IsFiniteSet({1}) /\ Cardinality({1}) = 1
    BY FS_Singleton
  <2>3. Cardinality({1} \cup {4}) = IF 4 \in {1} THEN Cardinality({1}) ELSE Cardinality({1}) + 1
    BY <2>2, FS_AddElement
  <2>4. QED
    BY <2>1, <2>2, <2>3
<1>5. QED
  BY <1>1, <1>2, <1>3, <1>4 DEF Score
LEMMA CreateRoute == RouteOf(Loc(<<"principals", "new">>)).name = "create"
<1>1. ASSUME NEW i \in 1..5
      PROVE  Matches(Routes[i].path, Loc(<<"principals", "new">>)) <=> i \in {3, 4}
  <2>1. CASE i \in {1, 2, 5}
    <3>1. Len(Routes[i].path) # 4
      BY <2>1 DEF Routes
    <3>2. QED
      BY <2>1, <3>1, LocDetail DEF Matches
  <2>2. CASE i = 3
    BY <2>2, LocDetail DEF Routes, Matches, IsParam, Par, Lit
  <2>4. CASE i = 4
    BY <2>4, LocDetail DEF Routes, Matches, IsParam, Par, Lit
  <2>3. QED
    BY <2>1, <2>2, <2>4
<1>2. {i \in DOMAIN Routes : Matches(Routes[i].path, Loc(<<"principals", "new">>))} = {3, 4}
  BY <1>1, RoutesDomain
<1>3. Routes[3].name = "create"
  BY DEF Routes
<1>4. QED
  BY <1>2, <1>3, CreateScore, DetailScore DEF RouteOf

LEMMA RouteNamesAre == RouteNames = {"dashboard", "list", "create", "detail"}
<1>1. \A i \in 1..5 : Routes[i].name \in {"dashboard", "list", "create", "detail"}
  BY DEF Routes
<1>2. \A n \in {"dashboard", "list", "create", "detail"} : \E i \in 1..5 : Routes[i].name = n
  <2>1. Routes[1].name = "dashboard" /\ Routes[2].name = "list"
        /\ Routes[3].name = "create" /\ Routes[4].name = "detail"
    BY DEF Routes
  <2>2. QED
    BY <2>1
<1>3. QED
  BY <1>1, <1>2, RoutesDomain DEF RouteNames

\* Every link the dashboard, the list, its rows and the form render opens
\* the page it was written for: the list's links, "Create Principal",
\* "Cancel" and each row's name and "View Details" resolve to the list, the
\* form and the detail page; the others lead to pages outside these routes.
THEOREM NavLinksOpen ==
  ASSUME NEW ids \in SUBSET Ids, NEW cfg
  PROVE  \A l \in StatLinks \cup ConfigurationLinks \cup QuickActionLinks(cfg)
                  \cup ListLinks \cup RowLinks(ids) \cup CreateLinks : LinkOpens(l)
<1>1. LinkOpens(Link(<<"principals">>, "list"))
  BY ListRoute DEF LinkOpens, Link
<1>2. LinkOpens(Link(<<"principals", "new">>, "create"))
  BY CreateRoute DEF LinkOpens, Link
<1>3. \A p \in ids : LinkOpens(Link(<<"principals", p>>, "detail"))
  BY DetailRoute DEF LinkOpens, Link
<1>4. \A n \in {"delegates", "mandates", "passports", "config", "createDelegate", "mint"} :
         \A segs : LinkOpens(Link(segs, n))
  BY RouteNamesAre DEF LinkOpens, Link
<1>5. QED
  BY <1>1, <1>2, <1>3, <1>4
     DEF StatLinks, ConfigurationLinks, QuickActionLinks, ListLinks, RowLinks, CreateLinks
=============================================================================
