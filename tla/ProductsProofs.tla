---------------------------- MODULE ProductsProofs ----------------------------
(***************************************************************************)
(* What owners of teams keep, and what products keep of their builds, for  *)
(* any number of users, teams, products, builds, workers and requests; and *)
(* what the plans of releases leave in the repositories of a platform or   *)
(* of a product, for any packages, answers of beholder and requests.       *)
(***************************************************************************)
EXTENDS Products, ReleasePlan, WellFoundedInduction, TLAPS

------------------------------------------------------------------------------
(* Teams and their owners                                                  *)

TeamRow == [owner : User, members : SUBSET User]
TeamTypes ==
    /\ team \in [Team -> TeamRow \cup {None}]
    /\ roles \in [User -> SUBSET (Team \X RoleName)]
OwnerInv == TeamTypes /\ OwnerManages

\* A row of a team that is there.
LEMMA TeamRows == ASSUME TeamTypes, NEW t \in Team, team[t] # None
                  PROVE  team[t] \in TeamRow
  BY DEF TeamTypes

\* Rows of members and owners may only be added.
LEMMA NewTeamKeeps ==
    ASSUME OwnerInv, NEW t \in Team, NEW owner \in User, NEW given \in SUBSET RolesOf(t),
           team' = team \/ (team[t] = None
                            /\ team' = [team EXCEPT ![t] = [owner |-> owner, members |-> {owner}]]
                            /\ (t \notin ManagerNamed => <<t, "manager">> \in given)),
           roles' = [roles EXCEPT ![owner] = @ \cup given]
    PROVE  OwnerInv'
<1> USE DEF OwnerInv, TeamTypes
<1>1. TeamTypes'
  BY DEF TeamRow, RolesOf
<1>2. ASSUME NEW s \in Team \ ManagerNamed, team'[s] # None
      PROVE  team'[s].owner \in team'[s].members /\ <<s, "manager">> \in roles'[team'[s].owner]
  <2>1. CASE team'[s] = team[s]
    <3>1. team[s].owner \in User
      BY <1>2, <2>1, TeamRows DEF TeamRow
    <3>2. <<s, "manager">> \in roles[team[s].owner] /\ team[s].owner \in team[s].members
      BY <1>2, <2>1 DEF OwnerManages
    <3> QED
      BY <2>1, <3>1, <3>2
  <2>2. CASE team'[s] # team[s]
    <3>1. s = t /\ team'[s] = [owner |-> owner, members |-> {owner}] /\ <<t, "manager">> \in given
      BY <1>2, <2>2
    <3> QED
      BY <3>1
  <2> QED
    BY <2>1, <2>2
<1> QED
  BY <1>1, <1>2 DEF OwnerManages

\* The role of a contributor is one of the team's.
LEMMA ContributorRole == ASSUME NEW t \in Team PROVE ContributorRoles(t) \subseteq RolesOf(t)
BY DEF ContributorRoles, RolesOf, RoleName

LEMMA OwnerTeamStep ==
    ASSUME OwnerInv, NEW u \in User, NEW t \in Team, NEW m \in User
    PROVE  /\ CreateTeam(t, u) => OwnerInv'
           /\ AddMember(u, t, m) => OwnerInv'
           /\ RemoveMember(u, t, m) => OwnerInv'
           /\ \A names \in RoleSets : AddRoles(u, m, {t} \X names) => OwnerInv'
           /\ \A names \in RoleSets : RemoveRoles(u, m, {t} \X names) => OwnerInv'
           /\ \A referred : RemoveTeam(u, t, referred) => OwnerInv'
<1> USE DEF OwnerInv, TeamTypes
<1>1. ASSUME CreateTeam(t, u) PROVE OwnerInv'
  <2>1. {ManagerRole(t)} \subseteq RolesOf(t)
    BY DEF ManagerRole, RolesOf, RoleName
  <2>2. t \notin ManagerNamed => <<t, "manager">> \in {ManagerRole(t)}
    BY DEF ManagerRole
  <2>3. /\ team[t] = None
        /\ team' = [team EXCEPT ![t] = [owner |-> u, members |-> {u}]]
        /\ roles' = [roles EXCEPT ![u] = @ \cup {ManagerRole(t)}]
    BY <1>1 DEF CreateTeam, NewTeam
  <2> HIDE DEF OwnerInv
  <2> QED
    BY <2>1, <2>2, <2>3, NewTeamKeeps
<1>2. ASSUME AddMember(u, t, m) PROVE OwnerInv'
  <2>1. team[t] \in TeamRow
    BY <1>2, TeamRows DEF AddMember
  <2>2. TeamTypes'
    BY <1>2, <2>1, ContributorRole DEF AddMember, TeamRow, RolesOf
  <2>3. ASSUME NEW s \in Team \ ManagerNamed, team'[s] # None
        PROVE  team'[s].owner \in team'[s].members /\ <<s, "manager">> \in roles'[team'[s].owner]
    <3>1. team[s] # None /\ team'[s].owner = team[s].owner /\ team[s].members \subseteq team'[s].members
      BY <1>2, <2>1, <2>3 DEF AddMember, TeamRow
    <3>2. team[s].owner \in User
      BY <2>3, <3>1, TeamRows DEF TeamRow
    <3> QED
      BY <1>2, <2>3, <3>1, <3>2 DEF AddMember, OwnerManages
  <2> QED
    BY <2>2, <2>3 DEF OwnerManages
<1>3. ASSUME RemoveMember(u, t, m) PROVE OwnerInv'
  <2>0. PICK r \in ContributorRoles(t) :
           LET left == roles[m] \ {r}
               mine == left \cap RolesOf(t)
           IN \E kept \in SUBSET mine : roles' = [roles EXCEPT ![m] = (left \ mine) \cup kept]
    BY <1>3 DEF RemoveMember, Spared
  <2> DEFINE left == roles[m] \ {r}
             mine == left \cap RolesOf(t)
  <2>1. team[t] \in TeamRow /\ m # team[t].owner
    BY <1>3, TeamRows DEF RemoveMember
  <2>2. PICK kept \in SUBSET mine : roles' = [roles EXCEPT ![m] = (left \ mine) \cup kept]
    BY <2>0
  <2>3. team' = [team EXCEPT ![t].members = @ \ {m}]
    BY <1>3 DEF RemoveMember
  <2>4. TeamTypes'
    BY <2>1, <2>2, <2>3 DEF TeamRow
  <2>5. ASSUME NEW s \in Team \ ManagerNamed, team'[s] # None
        PROVE  team'[s].owner \in team'[s].members /\ <<s, "manager">> \in roles'[team'[s].owner]
    <3>1. team[s] # None /\ team'[s].owner = team[s].owner
      <4>1. CASE s = t
        <5>1. team'[s] = [team[t] EXCEPT !.members = @ \ {m}]
          BY <2>3, <4>1
        <5>2. team[t] # None
          BY <1>3 DEF RemoveMember
        <5> QED
          BY <2>1, <4>1, <5>1, <5>2 DEF TeamRow
      <4>2. CASE s # t
        BY <2>3, <2>5, <4>2
      <4> QED
        BY <4>1, <4>2
    <3>2. /\ team[s].owner \in User /\ team[s].owner \in team[s].members
          /\ <<s, "manager">> \in roles[team[s].owner]
      BY <2>5, <3>1, TeamRows DEF TeamRow, OwnerManages
    <3>3. team[s].owner \in team'[s].members
      BY <2>1, <2>3, <3>2 DEF TeamRow
    <3>4. CASE team[s].owner = m
      <4>1. s # t
        BY <2>1, <3>4
      <4>2. <<s, "manager">> \in left \ mine
        BY <3>2, <3>4, <4>1, ContributorRole DEF RolesOf
      <4> QED
        BY <2>2, <3>1, <3>3, <3>4, <4>2
    <3>5. CASE team[s].owner # m
      BY <2>2, <3>1, <3>2, <3>3, <3>5
    <3> QED
      BY <3>4, <3>5
  <2> QED
    BY <2>4, <2>5 DEF OwnerManages
<1>4. ASSUME NEW names \in RoleSets, AddRoles(u, m, {t} \X names) PROVE OwnerInv'
  <2>1. ({t} \X names) \in SUBSET RolesOf(t)
    BY ProductsAssumption DEF RolesOf
  <2> QED
    BY <1>4, <2>1, NewTeamKeeps DEF AddRoles
<1>5. ASSUME NEW names \in RoleSets, RemoveRoles(u, m, {t} \X names) PROVE OwnerInv'
  <2>1. team' = team /\ roles' = [roles EXCEPT ![m] = @ \ ({t} \X names)]
    BY <1>5 DEF RemoveRoles
  <2>2. names # {} => team[t].owner # m
    <3> SUFFICES ASSUME NEW n \in names PROVE team[t].owner # m
      OBVIOUS
    <3>1. <<t, n>> \in {t} \X names /\ <<t, n>>[1] = t
      OBVIOUS
    <3>2. t \in {r[1] : r \in {t} \X names}
      BY <3>1
    <3> QED
      BY <1>5, <3>2 DEF RemoveRoles, CanEditTeamsRoles
  <2>3. TeamTypes'
    BY <2>1
  <2>4. ASSUME NEW s \in Team \ ManagerNamed, team[s] # None
        PROVE  <<s, "manager">> \in roles'[team[s].owner]
    <3>1. team[s].owner \in User /\ <<s, "manager">> \in roles[team[s].owner]
      BY <2>4, TeamRows DEF TeamRow, OwnerManages
    <3> QED
      BY <2>1, <2>2, <3>1
  <2> QED
    BY <2>1, <2>3, <2>4 DEF OwnerManages
<1>6. ASSUME NEW referred, RemoveTeam(u, t, referred) PROVE OwnerInv'
  <2>1. team' = [team EXCEPT ![t] = None] /\ roles' = [v \in User |-> roles[v] \ RolesOf(t)]
    BY <1>6 DEF RemoveTeam
  <2>2. TeamTypes'
    BY <2>1
  <2>3. ASSUME NEW s \in Team \ ManagerNamed, team'[s] # None
        PROVE  team'[s].owner \in team'[s].members /\ <<s, "manager">> \in roles'[team'[s].owner]
    <3>1. s # t /\ team'[s] = team[s]
      BY <2>1, <2>3
    <3>2. /\ team[s].owner \in User /\ team[s].owner \in team[s].members
          /\ <<s, "manager">> \in roles[team[s].owner]
      BY <2>3, <3>1, TeamRows DEF TeamRow, OwnerManages
    <3> QED
      BY <2>1, <3>1, <3>2 DEF RolesOf
  <2> QED
    BY <2>2, <2>3 DEF OwnerManages
<1> QED
  BY <1>1, <1>2, <1>3, <1>4, <1>5, <1>6

LEMMA OwnerStep == OwnerInv /\ [Next]_vars => OwnerInv'
<1> SUFFICES ASSUME OwnerInv, [Next]_vars PROVE OwnerInv'
  OBVIOUS
<1>1. CASE UNCHANGED teamVars
  BY <1>1 DEF teamVars, OwnerInv, TeamTypes, OwnerManages
<1>2. ASSUME NEW p \in Product, NEW repos, NEW c, CreateProduct(p, repos, c) PROVE OwnerInv'
  <2>1. TeamOf[p] \in Team /\ OwnerOf[p] \in User
    BY ProductsAssumption
  <2>2. RolesOf(TeamOf[p]) \in SUBSET RolesOf(TeamOf[p]) /\ <<TeamOf[p], "manager">> \in RolesOf(TeamOf[p])
    BY <2>1 DEF RolesOf, RoleName
  <2>3. CASE UNCHANGED teamVars
    BY <1>1, <2>3
  <2>4. CASE /\ roles' = [roles EXCEPT ![OwnerOf[p]] = @ \cup RolesOf(TeamOf[p])]
             /\ IF team[TeamOf[p]] = None THEN NewTeam(TeamOf[p], OwnerOf[p]) ELSE UNCHANGED team
    BY <2>1, <2>2, <2>4, NewTeamKeeps DEF NewTeam
  <2> QED
    BY <1>2, <2>3, <2>4 DEF CreateProduct
<1>3. CASE ChangeTeam
  BY <1>3, OwnerTeamStep DEF ChangeTeam
<1>4. ASSUME NEW u \in User, Left(u) PROVE OwnerInv'
  <2>1. team' = team /\ roles' = [roles EXCEPT ![u] = {}] /\ ~Owns(u)
    BY <1>4 DEF Left
  <2>2. \A t \in Team : team[t] # None => team[t].owner # u
    BY <2>1 DEF Owns
  <2>3. \A t \in Team : team[t] # None => team[t].owner \in User
    BY TeamRows DEF OwnerInv, TeamRow
  <2> QED
    BY <2>1, <2>2, <2>3 DEF OwnerInv, TeamTypes, OwnerManages
<1> QED
  BY <1>1, <1>2, <1>3, <1>4
     DEF Next, vars, AddPlatform, ModifyProduct, BeginRemoval, EndRemoval, CreateBuild,
         FinishBuild, RemoveBuild, Load, Look, Modify, Finish, Lose, AskToRemove, Leave,
         LeaveBuild, Stay

\* The owner of a team stays a member and keeps the manager's role, for any
\* users, teams, roles, products and requests.
THEOREM OwnersManage == Spec => []OwnerManages
<1>1. Init => OwnerInv
  BY DEF Init, OwnerInv, TeamTypes, OwnerManages
<1>2. OwnerInv => OwnerManages
  BY DEF OwnerInv
<1> QED
  BY OwnerStep, <1>1, <1>2, PTL DEF Spec

------------------------------------------------------------------------------
(* Builds in products and their repositories                               *)

RowTypes ==
    /\ build \in [Build -> BuildRow \cup {New, Gone}]
    /\ leaving \in [User -> LeavingRow \cup {None, Queued}]
\* A build in a product has a row that no removal has deleted yet, and a build
\* that is built has lost its repositories only to a removal.
KeepInv ==
    /\ RowTypes
    /\ \A p \in Product, b \in Build : <<p, b>> \in members => InDB(b) /\ b \notin Locked
    /\ \A b \in Build : InDB(b) /\ build[b].built => b \in stored \cup hurt \cup Locked

LEMMA LockedRows ==
    \A b : b \in Locked <=> \E u \in User : leaving[u] \notin {None, Queued} /\ b \in leaving[u].done
  BY DEF Locked

\* Rows that move on without a build becoming done or losing what was done.
LEMMA LockedMoves ==
    ASSUME RowTypes, NEW u \in User, NEW row \in LeavingRow \cup {None, Queued},
           leaving' = [leaving EXCEPT ![u] = row]
    PROVE  /\ RowTypes' \/ build' # build
           /\ row \in LeavingRow =>
                \A b : b \in Locked' <=>
                    \/ b \in row.done
                    \/ \E v \in User \ {u} : leaving[v] \notin {None, Queued} /\ b \in leaving[v].done
           /\ row \in {None, Queued} =>
                \A b : b \in Locked' <=>
                    \E v \in User \ {u} : leaving[v] \notin {None, Queued} /\ b \in leaving[v].done
<1> USE DEF RowTypes
<1>1. leaving' \in [User -> LeavingRow \cup {None, Queued}]
  OBVIOUS
<1>2. leaving'[u] = row /\ \A v \in User \ {u} : leaving'[v] = leaving[v]
  OBVIOUS
<1>3. row \in LeavingRow => row \notin {None, Queued}
  BY MarkersAssumption
<1>4. \A b : b \in Locked' <=>
        \E v \in User : leaving'[v] \notin {None, Queued} /\ b \in leaving'[v].done
  BY DEF Locked
<1> QED
  BY <1>1, <1>2, <1>3, <1>4

LEMMA KeepStep == KeepInv /\ [Next]_vars => KeepInv'
<1> SUFFICES ASSUME KeepInv, [Next]_vars PROVE KeepInv'
  OBVIOUS
<1> USE DEF KeepInv
<1>1. CASE /\ UNCHANGED <<build, stored, leaving, hurt>> /\ members' \subseteq members
  BY <1>1 DEF RowTypes, InDB, Locked
<1>2. ASSUME NEW p \in Product, EndRemoval(p) PROVE KeepInv'
  BY <1>1, <1>2 DEF EndRemoval, leaveVars, pulpVars
<1>3. ASSUME NEW u \in User, NEW p \in Product, NEW b \in Build, CreateBuild(u, p, b)
      PROVE  KeepInv'
  <2> DEFINE row == [owner |-> u, team |-> TeamOf[p], built |-> FALSE]
  <2>1. build[b] = New /\ build' = [build EXCEPT ![b] = row]
        /\ UNCHANGED <<members, stored, leaving, hurt>>
    BY <1>3 DEF CreateBuild, leaveVars, pulpVars
  <2>2. row \in BuildRow
    BY ProductsAssumption DEF BuildRow
  <2>3. RowTypes' /\ Locked' = Locked /\ \A c \in Build : c # b => build'[c] = build[c]
    BY <2>1, <2>2 DEF RowTypes, Locked
  <2>4. \A q \in Product : <<q, b>> \notin members
    BY <2>1 DEF InDB
  <2>5. build'[b] = row /\ ~row.built
    BY <2>1 DEF RowTypes
  <2>6. \A c \in Build : c # b => (InDB(c))' = InDB(c)
    BY <2>3 DEF InDB
  <2> QED
    BY <2>1, <2>3, <2>4, <2>5, <2>6
<1>4. ASSUME NEW b \in Build, FinishBuild(b) PROVE KeepInv'
  <2>1. /\ InDB(b) /\ build' = [build EXCEPT ![b].built = TRUE] /\ stored' = stored \cup {b}
        /\ UNCHANGED <<members, leaving, hurt>>
    BY <1>4 DEF FinishBuild, leaveVars
  <2>2. build[b] \in BuildRow
    BY <2>1 DEF InDB, RowTypes
  <2>3. build'[b] \in BuildRow /\ \A c \in Build : c # b => build'[c] = build[c]
    BY <2>1, <2>2 DEF RowTypes, BuildRow
  <2>4. RowTypes' /\ Locked' = Locked
    BY <2>1, <2>3 DEF RowTypes, Locked
  <2>5. \A c \in Build : InDB(c)' <=> InDB(c)
    BY <2>1, <2>3, MarkersAssumption DEF InDB
  <2> QED
    BY <2>1, <2>3, <2>4, <2>5
<1>5. ASSUME NEW b \in Build, RemoveBuild(b) PROVE KeepInv'
  <2>1. /\ build' = [build EXCEPT ![b] = Gone] /\ stored \ {b} \subseteq stored'
        /\ UNCHANGED <<members, leaving, hurt>> /\ \A p \in Product : <<p, b>> \notin members
    BY <1>5 DEF RemoveBuild, Unstored, leaveVars
  <2>2. RowTypes' /\ Locked' = Locked /\ ~InDB(b)' /\ \A c \in Build : c # b => build'[c] = build[c]
    BY <2>1 DEF RowTypes, Locked, InDB
  <2>3. \A c \in Build : c # b => (InDB(c)' <=> InDB(c))
    BY <2>2 DEF InDB
  <2> QED
    BY <2>1, <2>2, <2>3
<1>6. ASSUME NEW w \in Worker, Finish(w) PROVE KeepInv'
  <2> DEFINE p == job[w].msg.product
             b == job[w].msg.build
  <2>1. UNCHANGED <<build, stored, leaving, hurt>> /\ b \notin Locked
    BY <1>6 DEF Finish, leaveVars, pulpVars
  <2>2. members' \subseteq members \/ (InDB(b) /\ members' = members \cup {<<p, b>>})
    BY <1>6 DEF Finish, Recorded
  <2>3. RowTypes' /\ Locked' = Locked /\ \A c \in Build : InDB(c)' <=> InDB(c)
    BY <2>1 DEF RowTypes, Locked, InDB
  <2> QED
    BY <2>1, <2>2, <2>3
<1>7. ASSUME NEW u \in User, AskToRemove(u) \/ Leave(u) \/ Left(u) \/ Stay(u) PROVE KeepInv'
  <2>1. CASE AskToRemove(u) \/ Leave(u)
    <3> DEFINE row == [todo |-> {c \in Build : InDB(c) /\ build[c].owner = u}, done |-> {}]
    <3>1. /\ leaving[u] \in {None, Queued} /\ UNCHANGED <<members, build, stored, hurt>>
          /\ \E r \in {Queued, row} : leaving' = [leaving EXCEPT ![u] = r]
      BY <2>1 DEF AskToRemove, Leave, leaveVars, pulpVars
    <3>2. row \in LeavingRow /\ row.done = {}
      BY DEF LeavingRow
    <3> HIDE DEF row
    <3>3. RowTypes' /\ \A c : c \in Locked' <=> c \in Locked
      <4>1. CASE leaving' = [leaving EXCEPT ![u] = Queued]
        BY <3>1, <4>1, LockedMoves, LockedRows
      <4>2. CASE leaving' = [leaving EXCEPT ![u] = row]
        BY <3>1, <3>2, <4>2, LockedMoves, LockedRows
      <4> QED
        BY <3>1, <4>1, <4>2
    <3> QED
      BY <3>1, <3>3 DEF InDB
  <2>2. CASE Left(u)
    <3>1. /\ leaving[u] \notin {None, Queued} /\ leaving' = [leaving EXCEPT ![u] = None]
          /\ build' = [c \in Build |-> IF c \in leaving[u].done THEN Gone ELSE build[c]]
          /\ UNCHANGED <<members, stored, hurt>>
      BY <2>2 DEF Left, pulpVars
    <3>2. RowTypes'
      BY <3>1 DEF RowTypes
    <3>3. \A c : c \in Locked' \/ c \in leaving[u].done <=> c \in Locked
      BY <3>1, LockedMoves, LockedRows
    <3>4. \A c \in Build : IF c \in leaving[u].done THEN ~InDB(c)' ELSE build'[c] = build[c]
      BY <3>1 DEF InDB
    <3> QED
      BY <3>1, <3>2, <3>3, <3>4 DEF InDB
  <2>3. CASE Stay(u)
    <3>1. /\ leaving[u] \notin {None, Queued} /\ hurt' = hurt \cup leaving[u].done
          /\ \E r \in {None, Queued} : leaving' = [leaving EXCEPT ![u] = r]
          /\ UNCHANGED <<members, build, stored>>
      BY <2>3 DEF Stay, pulpVars
    <3>2. RowTypes' /\ \A c : c \in Locked' \/ c \in leaving[u].done <=> c \in Locked
      BY <3>1, LockedMoves, LockedRows
    <3> QED
      BY <3>1, <3>2 DEF InDB
  <2> QED
    BY <1>7, <2>1, <2>2, <2>3
<1>8. ASSUME NEW u \in User, NEW b \in Build, LeaveBuild(u, b) PROVE KeepInv'
  <2> DEFINE row == [todo |-> leaving[u].todo \ {b}, done |-> leaving[u].done \cup {b}]
  <2>1. /\ leaving[u] \notin {None, Queued} /\ leaving' = [leaving EXCEPT ![u] = row]
        /\ stored \ {b} \subseteq stored' /\ \A p \in Product : <<p, b>> \notin members
        /\ UNCHANGED <<members, build, hurt>>
    BY <1>8 DEF LeaveBuild, Unstored
  <2>2. leaving[u] \in LeavingRow
    BY <2>1 DEF RowTypes
  <2>3. row \in LeavingRow /\ row.done = leaving[u].done \cup {b}
    BY <2>2 DEF LeavingRow
  <2> HIDE DEF row
  <2>4. RowTypes' /\ \A c : c \in Locked' <=> c \in Locked \/ c = b
    BY <2>1, <2>3, LockedMoves, LockedRows
  <2>5. \A c \in Build : InDB(c)' <=> InDB(c)
    BY <2>1 DEF InDB
  <2>6. ASSUME NEW p \in Product, NEW c \in Build, <<p, c>> \in members'
        PROVE  InDB(c)' /\ c \notin Locked'
    BY <2>1, <2>4, <2>5, <2>6
  <2>7. ASSUME NEW c \in Build, InDB(c)', build'[c].built
        PROVE  c \in stored' \cup hurt' \cup Locked'
    BY <2>1, <2>4, <2>5, <2>7
  <2> QED
    BY <2>4, <2>6, <2>7
<1>9. CASE UNCHANGED <<members, build, stored, leaving, hurt>>
  BY <1>1, <1>9
<1> QED
  BY <1>1, <1>2, <1>3, <1>4, <1>5, <1>6, <1>7, <1>8, <1>9
     DEF Next, vars, pulpVars, leaveVars, CreateProduct, AddPlatform, ModifyProduct,
         BeginRemoval, Load, Look, Modify, Lose, ChangeTeam

\* A build in a product is in the database and keeps its Pulp repositories, for
\* any products, builds, workers, users and requests.
THEOREM MembersStay == Spec => []MembersKeepRepositories
<1>1. Init => KeepInv
  BY DEF Init, KeepInv, RowTypes, InDB, Locked
<1>2. KeepInv => MembersKeepRepositories
  BY DEF KeepInv, MembersKeepRepositories
<1> QED
  BY KeepStep, <1>1, <1>2, PTL DEF Spec
------------------------------------------------------------------------------
(* Types                                                                   *)

\* Roles of teams that are there.
There == {tr \in Team \X RoleName : team[tr[1]] # None}

LEMMA TeamOfRole == \A t \in Team : RolesOf(t) = {tr \in Team \X RoleName : tr[1] = t}
  BY DEF RolesOf

\* A team that is there gets members, an owner gets roles of a team there is.
LEMMA TeamGrows ==
    ASSUME TeamsTypeOK, NEW t \in Team, NEW m \in user, NEW given \in SUBSET RolesOf(t),
           team' \in [Team -> [owner : user, members : SUBSET user] \cup {None}],
           team'[t] # None, \A s \in Team : team[s] # None => team'[s] # None,
           roles' = [roles EXCEPT ![m] = @ \cup given], user' = user
    PROVE  TeamsTypeOK'
<1> USE DEF TeamsTypeOK
<1>1. There \subseteq There' /\ given \subseteq There'
  BY TeamOfRole DEF There
<1>2. roles \in [User -> SUBSET There] /\ m \in User
  BY DEF There
<1>3. roles' \in [User -> SUBSET There']
  BY <1>1, <1>2
<1>4. \A u \in User \ user : roles'[u] = {}
  BY <1>2
<1> QED
  BY <1>3, <1>4 DEF There

\* Fewer roles, of the teams that stay, and users that leave without a team.
LEMMA TeamShrinks ==
    ASSUME TeamsTypeOK, user' \subseteq user, DOMAIN roles' = User,
           roles' = [u \in User |-> roles'[u]],
           team' \in [Team -> [owner : user', members : SUBSET user'] \cup {None}],
           \A u \in User : roles'[u] \subseteq roles[u] /\ (u \notin user' => roles'[u] = {}),
           \A u \in User : \A tr \in roles'[u] : team'[tr[1]] # None
    PROVE  TeamsTypeOK'
<1> USE DEF TeamsTypeOK
<1>1. \A u \in User : roles'[u] \subseteq {tr \in Team \X RoleName : team'[tr[1]] # None}
  OBVIOUS
<1>2. roles' \in [User -> SUBSET {tr \in Team \X RoleName : team'[tr[1]] # None}]
  BY <1>1
<1> QED
  BY <1>2

LEMMA TeamTypeStep == TeamsTypeOK /\ ChangeTeam => TeamsTypeOK'
<1> SUFFICES ASSUME TeamsTypeOK, NEW u \in User, NEW t \in Team, NEW m \in User,
                    \/ CreateTeam(t, u) \/ RemoveTeam(u, t, Referred(t)) \/ AddMember(u, t, m)
                    \/ RemoveMember(u, t, m)
                    \/ \E names \in RoleSets :
                          AddRoles(u, m, {t} \X names) \/ RemoveRoles(u, m, {t} \X names)
             PROVE  TeamsTypeOK'
  BY DEF ChangeTeam
<1> USE DEF TeamsTypeOK
<1>1. CASE CreateTeam(t, u)
  <2> DEFINE row == [owner |-> u, members |-> {u}]
  <2>1. /\ u \in user /\ team' = [team EXCEPT ![t] = row] /\ user' = user
        /\ roles' = [roles EXCEPT ![u] = @ \cup {ManagerRole(t)}]
    BY <1>1 DEF CreateTeam, NewTeam
  <2>2. row \in [owner : user, members : SUBSET user] /\ row # None
    BY <2>1, TeamsAssumption
  <2>3. {ManagerRole(t)} \in SUBSET RolesOf(t)
    BY DEF ManagerRole, RolesOf, RoleName
  <2> QED
    BY <2>1, <2>2, <2>3, TeamGrows
<1>2. CASE AddMember(u, t, m)
  <2> DEFINE row == [team[t] EXCEPT !.members = @ \cup {m}]
  <2>1. /\ m \in user /\ team[t] # None /\ team' = [team EXCEPT ![t] = row] /\ user' = user
    BY <1>2 DEF AddMember
  <2>5. PICK r \in ContributorRoles(t) : roles' = [roles EXCEPT ![m] = @ \cup {r}]
    BY <1>2 DEF AddMember
  <2>2. row \in [owner : user, members : SUBSET user]
    BY <2>1
  <2>3. row # None
    BY <2>2, TeamsAssumption
  <2>4. {r} \in SUBSET RolesOf(t)
    BY <2>5, ContributorRole
  <2> HIDE DEF row
  <2> QED
    BY <2>1, <2>2, <2>3, <2>4, <2>5, TeamGrows
<1>3. CASE RemoveMember(u, t, m)
  <2> DEFINE row == [team[t] EXCEPT !.members = @ \ {m}]
  <2>1. /\ team[t] # None /\ team' = [team EXCEPT ![t] = row] /\ user' = user
    BY <1>3 DEF RemoveMember
  <2>2. row \in [owner : user, members : SUBSET user]
    BY <2>1
  <2>3. row # None
    BY <2>2, TeamsAssumption
  <2>4. PICK rest \in SUBSET roles[m] : roles' = [roles EXCEPT ![m] = rest]
    <3>0. PICK r \in ContributorRoles(t) :
             LET left == roles[m] \ {r}
                 mine == left \cap RolesOf(t)
             IN \E kept \in SUBSET mine : roles' = [roles EXCEPT ![m] = (left \ mine) \cup kept]
      BY <1>3 DEF RemoveMember, Spared
    <3> DEFINE left == roles[m] \ {r}
               mine == left \cap RolesOf(t)
    <3>1. PICK kept \in SUBSET mine : roles' = [roles EXCEPT ![m] = (left \ mine) \cup kept]
      BY <3>0
    <3>2. (left \ mine) \cup kept \in SUBSET roles[m]
      OBVIOUS
    <3> QED
      BY <3>1, <3>2
  <2> HIDE DEF row
  <2>5. \A v \in User : roles'[v] \subseteq roles[v]
    BY <2>4
  <2> QED
    BY <2>1, <2>2, <2>3, <2>4, <2>5, TeamShrinks
<1>4. ASSUME NEW names \in RoleSets, AddRoles(u, m, {t} \X names) PROVE TeamsTypeOK'
  <2>1. /\ m \in user /\ UNCHANGED <<user, team>>
        /\ roles' = [roles EXCEPT ![m] = @ \cup ({t} \X names)]
        /\ \A r \in {t} \X names : team[r[1]] # None
    BY <1>4 DEF AddRoles
  <2>2. {t} \X names \in SUBSET RolesOf(t)
    BY ProductsAssumption DEF RolesOf
  <2>3. CASE names = {}
    <3>1. roles' = roles
      BY <2>1, <2>3
    <3> QED
      BY <2>1, <3>1
  <2>4. ASSUME NEW n \in names PROVE TeamsTypeOK'
    <3>1. <<t, n>> \in {t} \X names /\ <<t, n>>[1] = t
      OBVIOUS
    <3>2. team[t] # None
      BY <2>1, <3>1
    <3> QED
      BY <2>1, <2>2, <3>2, TeamGrows
  <2> QED
    BY <2>3, <2>4
<1>5. ASSUME NEW names \in RoleSets, RemoveRoles(u, m, {t} \X names) PROVE TeamsTypeOK'
  <2>1. /\ UNCHANGED <<user, team>> /\ roles' = [roles EXCEPT ![m] = @ \ ({t} \X names)]
    BY <1>5 DEF RemoveRoles
  <2>2. \A v \in User : roles'[v] \subseteq roles[v]
    BY <2>1
  <2> QED
    BY <2>1, <2>2, TeamShrinks
<1>6. CASE RemoveTeam(u, t, Referred(t))
  <2>1. /\ team' = [team EXCEPT ![t] = None] /\ user' = user
        /\ roles' = [v \in User |-> roles[v] \ RolesOf(t)]
    BY <1>6 DEF RemoveTeam
  <2>2. \A v \in User : \A tr \in roles'[v] : team'[tr[1]] # None
    BY <2>1, TeamOfRole
  <2> QED
    BY <2>1, <2>2, TeamShrinks
<1> QED
  BY <1>1, <1>2, <1>3, <1>4, <1>5, <1>6
\* What a new repository leaves open, pair by pair.
LEMMA LeftoverPairs ==
    ASSUME NEW p \in Product, NEW repos \in SUBSET Repo
    PROVE  /\ Leftover(p, repos) \subseteq Product \X Units
           /\ \A q, b, r : <<q, <<b, r>>>> \in Leftover(p, repos) <=>
                /\ q = p /\ b \in Build /\ r \in repos
                /\ Doing(p, b) # {} \/ (<<b, r>> \in content[p]) # (<<p, b>> \in members)
<1> DEFINE open(x) == Doing(p, x[1]) # {} \/ (x \in content[p]) # (<<p, x[1]>> \in members)
<1>1. Leftover(p, repos) = {<<p, x>> : x \in {x \in Build \X repos : open(x)}}
  BY DEF Leftover
<1>2. \A b, r : open(<<b, r>>) <=>
        Doing(p, b) # {} \/ (<<b, r>> \in content[p]) # (<<p, b>> \in members)
  OBVIOUS
<1> HIDE DEF open
<1>3. Leftover(p, repos) \subseteq Product \X (Build \X Repo)
  BY <1>1
<1>4. \A q, b, r : <<q, <<b, r>>>> \in Leftover(p, repos) <=>
        q = p /\ b \in Build /\ r \in repos /\ open(<<b, r>>)
  BY <1>1
<1> QED
  BY <1>2, <1>3, <1>4 DEF Units

LEMMA RequestTypes ==
    ASSUME TypeOK,
           \/ \E p \in Product, repos \in SUBSET Repo \ {{}}, c \in BOOLEAN : CreateProduct(p, repos, c)
           \/ \E u \in User, p \in Product, repos \in SUBSET Repo \ {{}} : AddPlatform(u, p, repos)
           \/ \E u \in User, p \in Product, b \in Build, c \in Change : ModifyProduct(u, p, b, c)
           \/ \E u \in User, p \in Product : BeginRemoval(u, p)
           \/ \E p \in Product : EndRemoval(p)
    PROVE  TypeOK'
<1> USE DEF TypeOK
<1>1. ASSUME NEW p \in Product, NEW repos \in SUBSET Repo, NEW c, CreateProduct(p, repos, c)
      PROVE  TypeOK'
  <2> DEFINE t == TeamOf[p]
             owner == OwnerOf[p]
  <2>1. t \in Team /\ owner \in user /\ owner \in User
    BY <1>1, ProductsAssumption DEF CreateProduct, TeamsTypeOK
  <2>2. served' \subseteq Product /\ UNCHANGED <<members, build, stored, content, queue, job, removal,
                                                 leaving, hurt, events>>
    BY <1>1 DEF CreateProduct, AddRepos, pulpVars, workVars, leaveVars
  <2>3. CASE UNCHANGED <<teamVars, product, keyed, off>>
    BY <2>2, <2>3 DEF TeamsTypeOK, teamVars
  <2>4. CASE /\ IF team[t] = None THEN NewTeam(t, owner) ELSE UNCHANGED team
             /\ roles' = [roles EXCEPT ![owner] = @ \cup RolesOf(t)] /\ UNCHANGED user
             /\ keyed' = IF c THEN keyed \cup {p} ELSE keyed
             /\ product' = [product EXCEPT ![p] = [id |-> events, repos |-> repos]]
             /\ off' = (off \ ({p} \X Units)) \cup Leftover(p, repos)
    <3>1. TeamsTypeOK'
      <4> DEFINE row == [owner |-> owner, members |-> {owner}]
      <4>1. row \in [owner : user, members : SUBSET user] /\ row # None
        BY <2>1, TeamsAssumption
      <4>2. /\ team' \in [Team -> [owner : user, members : SUBSET user] \cup {None}]
            /\ team'[t] # None /\ \A s \in Team : team[s] # None => team'[s] # None
        <5> HIDE DEF row
        <5>1. CASE team[t] = None
          <6>1. team' = [team EXCEPT ![t] = row]
            BY <2>4, <5>1 DEF NewTeam, row
          <6> QED
            BY <2>1, <4>1, <6>1 DEF TeamsTypeOK
        <5>2. CASE team[t] # None
          BY <2>4, <5>2 DEF TeamsTypeOK
        <5> QED
          BY <5>1, <5>2
      <4>3. RolesOf(t) \in SUBSET RolesOf(t)
        OBVIOUS
      <4> HIDE DEF t, owner
      <4> QED
        BY <2>1, <2>4, <4>2, <4>3, TeamGrows
    <3>2. product' \in [Product -> ProductRow \cup {None}]
      BY <2>4 DEF ProductRow
    <3>3. off' \subseteq Product \X Units /\ keyed' \subseteq Product
      BY <2>4, LeftoverPairs
    <3> QED
      BY <2>2, <3>1, <3>2, <3>3
  <2> QED
    BY <1>1, <2>3, <2>4 DEF CreateProduct
<1>2. ASSUME NEW u \in User, NEW p \in Product, NEW repos \in SUBSET Repo, AddPlatform(u, p, repos)
      PROVE  TypeOK'
  <2> DEFINE row == [product[p] EXCEPT !.repos = @ \cup repos]
  <2>1. /\ product[p] # None /\ product' = [product EXCEPT ![p] = row]
        /\ events' \in 0..MaxEvents /\ served' \subseteq Product
        /\ off' = off \cup Leftover(p, repos \ product[p].repos)
        /\ UNCHANGED <<user, team, roles, members, build, stored, content, keyed, queue, job, removal,
                       leaving, hurt>>
    BY <1>2, ProductsAssumption DEF AddPlatform, AddRepos, Request, teamVars, workVars, leaveVars
  <2>2. row \in ProductRow
    BY <2>1 DEF ProductRow
  <2>3. product' \in [Product -> ProductRow \cup {None}]
    <3> HIDE DEF row
    <3> QED
      BY <2>1, <2>2
  <2>4. off' \subseteq Product \X Units
    BY <2>1, LeftoverPairs
  <2> QED
    BY <2>1, <2>3, <2>4 DEF TeamsTypeOK
<1>3. ASSUME NEW u \in User, NEW p \in Product, NEW b \in Build, NEW c \in Change,
             ModifyProduct(u, p, b, c)
      PROVE  TypeOK'
  <2> DEFINE m == [id |-> events', build |-> b, product |-> p, of |-> product[p].id, change |-> c]
  <2>1. /\ product[p] # None /\ events' = events + 1 /\ events' \in 0..MaxEvents
        /\ queue' = queue \cup {m}
        /\ UNCHANGED <<user, team, roles, product, members, build, stored, content, served, keyed, job,
                       removal, leaving, hurt, off>>
    BY <1>3, ProductsAssumption DEF ModifyProduct, Request, teamVars, pulpVars, leaveVars
  <2>2. product[p].id \in 0..MaxEvents
    BY <2>1 DEF ProductRow
  <2>3. m \in Message
    BY <2>1, <2>2, ProductsAssumption DEF Message
  <2>4. queue' \subseteq Message
    <3> HIDE DEF m
    <3> QED
      BY <2>1, <2>3
  <2> QED
    BY <2>1, <2>4 DEF TeamsTypeOK
<1>4. ASSUME NEW u \in User, NEW p \in Product, BeginRemoval(u, p) PROVE TypeOK'
  <2> DEFINE row == [id |-> product[p].id, held |-> BuildsOf(p)]
  <2>1. /\ product[p] # None /\ events' \in 0..MaxEvents
        /\ removal' = [removal EXCEPT ![p] = row] /\ served' \subseteq Product
        /\ UNCHANGED <<user, team, roles, product, members, build, stored, content, keyed, queue, job,
                       leaving, hurt, off>>
    BY <1>4, ProductsAssumption DEF BeginRemoval, Request, teamVars, workVars, leaveVars
  <2>2. row \in [id : 0..MaxEvents, held : SUBSET Build]
    BY <2>1 DEF ProductRow, BuildsOf
  <2>3. removal' \in [Product -> [id : 0..MaxEvents, held : SUBSET Build] \cup {None}]
    <3> HIDE DEF row
    <3> QED
      BY <2>1, <2>2
  <2> QED
    BY <2>1, <2>3 DEF TeamsTypeOK
<1>5. ASSUME NEW p \in Product, EndRemoval(p) PROVE TypeOK'
  <2>1. /\ removal' = [removal EXCEPT ![p] = None]
        /\ product' = product \/ product' = [product EXCEPT ![p] = None]
        /\ members' \subseteq members
        /\ UNCHANGED <<user, team, roles, build, stored, content, served, keyed, queue, job, leaving,
                       hurt, events, off>>
    BY <1>5 DEF EndRemoval, teamVars, pulpVars, workVars, leaveVars
  <2> QED
    BY <2>1 DEF TeamsTypeOK
<1> QED
  BY <1>1, <1>2, <1>3, <1>4, <1>5

LEMMA BuildTypes ==
    ASSUME TypeOK,
           \/ \E u \in User, p \in Product, b \in Build : CreateBuild(u, p, b)
           \/ \E b \in Build : FinishBuild(b) \/ RemoveBuild(b)
           \/ \E u \in User : AskToRemove(u) \/ Leave(u) \/ Left(u) \/ Stay(u)
           \/ \E u \in User, b \in Build : LeaveBuild(u, b)
    PROVE  TypeOK'
<1> USE DEF TypeOK
<1>1. ASSUME NEW u \in User, NEW p \in Product, NEW b \in Build, CreateBuild(u, p, b) PROVE TypeOK'
  <2> DEFINE row == [owner |-> u, team |-> TeamOf[p], built |-> FALSE]
  <2>1. /\ build' = [build EXCEPT ![b] = row]
        /\ UNCHANGED <<user, team, roles, product, members, stored, content, served, keyed, queue, job,
                       removal, leaving, hurt, events, off>>
    BY <1>1 DEF CreateBuild, teamVars, pulpVars, workVars, leaveVars
  <2>2. row \in BuildRow
    BY ProductsAssumption DEF BuildRow
  <2> HIDE DEF row
  <2> QED
    BY <2>1, <2>2 DEF TeamsTypeOK
<1>2. ASSUME NEW b \in Build, FinishBuild(b) \/ RemoveBuild(b) PROVE TypeOK'
  <2>1. /\ InDB(b) /\ stored' \subseteq Build /\ events' \in 0..MaxEvents
        /\ build' = [build EXCEPT ![b].built = TRUE] \/ build' = [build EXCEPT ![b] = Gone]
        /\ UNCHANGED <<user, team, roles, product, members, content, served, keyed, queue, job, removal,
                       leaving, hurt, off>>
    BY <1>2, ProductsAssumption
       DEF FinishBuild, RemoveBuild, Unstored, Request, teamVars, workVars, leaveVars
  <2>2. [build[b] EXCEPT !.built = TRUE] \in BuildRow
    BY <2>1 DEF InDB, BuildRow
  <2>3. build' \in [Build -> BuildRow \cup {New, Gone}]
    BY <2>1, <2>2
  <2> QED
    BY <2>1, <2>3 DEF TeamsTypeOK
<1>3. ASSUME NEW u \in User, AskToRemove(u) \/ Leave(u) \/ Stay(u) PROVE TypeOK'
  <2> DEFINE row == [todo |-> {b \in Build : InDB(b) /\ build[b].owner = u}, done |-> {}]
  <2>1. row \in LeavingRow
    BY DEF LeavingRow
  <2>2. /\ \E r \in {row, None, Queued} : leaving' = [leaving EXCEPT ![u] = r]
        /\ hurt' = hurt \/ (leaving[u] \notin {None, Queued} /\ hurt' = hurt \cup leaving[u].done)
        /\ events' \in 0..MaxEvents
        /\ UNCHANGED <<user, team, roles, product, members, build, stored, content, served, keyed, queue,
                       job, removal, off>>
    BY <1>3, ProductsAssumption
       DEF AskToRemove, Leave, Stay, Request, teamVars, pulpVars, workVars, leaveVars
  <2>3. leaving[u] \notin {None, Queued} => leaving[u].done \subseteq Build
    BY DEF LeavingRow
  <2> HIDE DEF row
  <2> QED
    BY <2>1, <2>2, <2>3 DEF TeamsTypeOK
<1>4. ASSUME NEW u \in User, Left(u) PROVE TypeOK'
  <2>1. /\ ~Owns(u) /\ user' = user \ {u} /\ roles' = [roles EXCEPT ![u] = {}] /\ team' = team
        /\ build' = [b \in Build |-> IF b \in leaving[u].done THEN Gone ELSE build[b]]
        /\ leaving' = [leaving EXCEPT ![u] = None]
        /\ UNCHANGED <<product, members, stored, content, served, keyed, queue, job, removal, hurt,
                       events, off>>
    BY <1>4 DEF Left, pulpVars, workVars
  <2>2. TeamsTypeOK'
    <3>1. \A t \in Team : team[t] # None => u \notin team[t].members \cup {team[t].owner}
      BY <2>1 DEF Owns
    <3>2. \A t \in Team : team[t] # None => team[t] \in [owner : user', members : SUBSET user']
      BY <2>1, <3>1 DEF TeamsTypeOK
    <3>3. team' \in [Team -> [owner : user', members : SUBSET user'] \cup {None}]
      BY <2>1, <3>2 DEF TeamsTypeOK
    <3>4. \A v \in User : /\ roles'[v] \subseteq roles[v] /\ (v \notin user' => roles'[v] = {})
                          /\ \A tr \in roles'[v] : team'[tr[1]] # None
      BY <2>1 DEF TeamsTypeOK
    <3>5. DOMAIN roles' = User /\ roles' = [v \in User |-> roles'[v]]
      BY <2>1 DEF TeamsTypeOK
    <3> QED
      BY <2>1, <3>3, <3>4, <3>5, TeamShrinks
  <2> QED
    BY <2>1, <2>2
<1>5. ASSUME NEW u \in User, NEW b \in Build, LeaveBuild(u, b) PROVE TypeOK'
  <2> DEFINE row == [todo |-> leaving[u].todo \ {b}, done |-> leaving[u].done \cup {b}]
  <2>1. /\ leaving[u] \notin {None, Queued} /\ leaving' = [leaving EXCEPT ![u] = row]
        /\ stored' \subseteq Build
        /\ UNCHANGED <<user, team, roles, product, members, build, content, served, keyed, queue, job,
                       removal, hurt, events, off>>
    BY <1>5 DEF LeaveBuild, Unstored, teamVars, workVars
  <2>2. row \in LeavingRow
    BY <2>1 DEF LeavingRow
  <2> HIDE DEF row
  <2> QED
    BY <2>1, <2>2 DEF TeamsTypeOK
<1> QED
  BY <1>1, <1>2, <1>3, <1>4, <1>5
\* What a worker does with one message.
LEMMA JobTypes ==
    ASSUME TypeOK, NEW w \in Worker,
           \/ \E m \in queue : Load(w, m)
           \/ Look(w) \/ Finish(w) \/ Lose(w)
           \/ \E r \in Repo : Modify(w, r)
    PROVE  TypeOK'
<1> USE DEF TypeOK
<1>1. ASSUME NEW m \in queue, Load(w, m) PROVE TypeOK'
  <2> DEFINE p == m.product
             b == m.build
             new == [msg |-> m, held |-> <<p, b>> \in members, repos |-> product[p].repos,
                     todo |-> {}, stage |-> "loaded", changed |-> FALSE,
                     alone |-> Doing(p, b) = {} /\ build[b].built]
  <2>1. /\ queue' \subseteq Message
        /\ job' = job \/ (Same(m) /\ InDB(b)
                          /\ job' = [v \in Worker |-> CASE v = w -> new
                                       [] v \in Doing(p, b) -> [job[v] EXCEPT !.alone = FALSE]
                                       [] OTHER -> job[v]])
        /\ UNCHANGED <<user, team, roles, product, members, build, stored, content, served, keyed,
                       removal, leaving, hurt, events, off>>
    BY <1>1 DEF Load, teamVars, pulpVars, leaveVars
  <2>2. m \in Message /\ p \in Product /\ b \in Build
    BY DEF Message
  <2>3. Same(m) /\ InDB(b) => new \in Job
    <3> SUFFICES ASSUME Same(m), InDB(b) PROVE new \in Job
      OBVIOUS
    <3>1. product[p] \in ProductRow /\ build[b] \in BuildRow
      BY <2>2 DEF Same, InDB
    <3>2. product[p].repos \subseteq Repo /\ build[b].built \in BOOLEAN
      BY <3>1 DEF ProductRow, BuildRow
    <3>3. (<<p, b>> \in members) \in BOOLEAN /\ (Doing(p, b) = {} /\ build[b].built) \in BOOLEAN
      OBVIOUS
    <3> HIDE DEF p, b
    <3> QED
      BY <2>2, <3>2, <3>3 DEF Job
  <2>4. \A v \in Doing(p, b) : [job[v] EXCEPT !.alone = FALSE] \in Job
    BY DEF Doing, Job
  <2>5. job' \in [Worker -> Job \cup {None}]
    <3> HIDE DEF new, p, b
    <3> QED
      BY <2>1, <2>3, <2>4
  <2> QED
    BY <2>1, <2>5 DEF TeamsTypeOK
<1>2. CASE Look(w)
  <2> DEFINE mine == {r \in job[w].repos \cap ReposOf[job[w].msg.build] : job[w].msg.build \in stored}
             todo == Wanted(mine, Existing(job[w].msg.product, job[w].msg.build), job[w].msg.change)
             new == [job[w] EXCEPT !.stage = "looked", !.todo = todo]
  <2>1. /\ job[w] # None /\ job' = [job EXCEPT ![w] = new]
        /\ UNCHANGED <<user, team, roles, product, members, build, stored, content, served, keyed, queue,
                       removal, leaving, hurt, events, off>>
    BY <1>2 DEF Look, teamVars, pulpVars, leaveVars
  <2>2. todo \subseteq Repo
    BY <2>1 DEF Wanted, Job
  <2>3. new \in Job
    <3> HIDE DEF todo
    <3> QED
      BY <2>1, <2>2 DEF Job
  <2> HIDE DEF new
  <2> QED
    BY <2>1, <2>3 DEF TeamsTypeOK
<1>3. ASSUME NEW r \in Repo, Modify(w, r) PROVE TypeOK'
  <2> DEFINE m == job[w].msg
             new == [job[w] EXCEPT !.todo = @ \ {r}, !.changed = TRUE]
  <2>1. /\ job[w] # None /\ job' = [job EXCEPT ![w] = new]
        /\ \E held \in {content[m.product] \cup {<<m.build, r>>}, content[m.product] \ {<<m.build, r>>}} :
              content' = [content EXCEPT ![m.product] = held]
        /\ UNCHANGED <<user, team, roles, product, members, build, stored, served, keyed, queue, removal,
                       leaving, hurt, events, off>>
    BY <1>3 DEF Modify, teamVars, leaveVars
  <2>2. m.product \in Product /\ m.build \in Build
    BY <2>1 DEF Job, Message
  <2>3. new \in Job
    <3>1. job[w] \in Job /\ job[w].todo \ {r} \in SUBSET Repo
      BY <2>1 DEF Job
    <3> QED
      BY <3>1 DEF Job
  <2> HIDE DEF new, m
  <2>4. content' \in [Product -> SUBSET Units]
    BY <2>1, <2>2 DEF Units
  <2> QED
    BY <2>1, <2>3, <2>4 DEF TeamsTypeOK
<1>4. CASE Finish(w) \/ Lose(w)
  <2> DEFINE p == job[w].msg.product
             b == job[w].msg.build
  <2>1. /\ job[w] # None /\ job' = [job EXCEPT ![w] = None]
        /\ queue' \subseteq queue \cup {job[w].msg}
        /\ members' \subseteq members \cup {<<p, b>>}
        /\ off' \subseteq off \cup Pair(p, b, job[w].repos)
        /\ UNCHANGED <<user, team, roles, product, build, stored, content, served, keyed, removal,
                       leaving, hurt, events>>
    BY <1>4 DEF Finish, Recorded, Lose, teamVars, pulpVars, leaveVars
  <2>2. p \in Product /\ b \in Build /\ job[w].msg \in Message /\ job[w].repos \subseteq Repo
    BY <2>1 DEF Job, Message
  <2>3. off' \subseteq Product \X Units
    BY <2>1, <2>2 DEF Pair, Units
  <2> HIDE DEF p, b
  <2>4. members' \subseteq Product \X Build /\ queue' \subseteq Message
    BY <2>1, <2>2
  <2> QED
    BY <2>1, <2>3, <2>4 DEF TeamsTypeOK
<1> QED
  BY <1>1, <1>2, <1>3, <1>4

\* Every variable of the products and of the teams keeps its type, for any
\* users, teams, products, builds and workers.
THEOREM ProductsTypeCorrect == Spec => []TypeOK
<1>1. Init => TypeOK
  BY ProductsAssumption DEF Init, TypeOK, TeamsTypeOK
<1>2. TypeOK /\ [Next]_vars => TypeOK'
  <2> SUFFICES ASSUME TypeOK, [Next]_vars PROVE TypeOK'
    OBVIOUS
  <2>1. CASE ChangeTeam
    <3>1. TeamsTypeOK'
      BY <2>1, TeamTypeStep DEF TypeOK
    <3>2. /\ events' \in 0..MaxEvents
          /\ UNCHANGED <<product, members, build, stored, content, served, keyed, queue, job, removal,
                         leaving, hurt, off>>
      BY <2>1, ProductsAssumption DEF ChangeTeam, Request, TypeOK, pulpVars, workVars, leaveVars
    <3> QED
      BY <3>1, <3>2 DEF TypeOK
  <2>2. CASE UNCHANGED vars
    BY <2>2 DEF vars, TypeOK, TeamsTypeOK, teamVars, pulpVars, workVars, leaveVars
  <2> QED
    BY <2>1, <2>2, RequestTypes, BuildTypes, JobTypes DEF Next
<1> QED
  BY <1>1, <1>2, PTL DEF Spec
------------------------------------------------------------------------------
(* What the repositories of a product hold                                 *)

\* A message is about the product in the database or about one before it: a
\* product that is created again gets a higher id.
Sent(m) == m \in queue \/ \E w \in Worker : job[w] # None /\ job[w].msg = m
Older(m) == IF product[m.product] = None THEN m.of < events ELSE m.of <= product[m.product].id
IdInv ==
    /\ \A p \in Product : product[p] # None => product[p].id <= events
    /\ \A p \in Product : removal[p] # None => product[p] # None /\ product[p].id < events
    /\ \A m \in Message : Sent(m) => Older(m)

Agrees(p, b, r) == <<b, r>> \in content[p] <=> <<p, b>> \in members
IsOff(p, b, r) == <<p, <<b, r>>>> \in off

\* A modification that started alone, on a finished build, knows the membership,
\* has disturbed nothing before its first call to Pulp, and when its list of calls
\* is done every repository it knows is as it wants it.
Lone(w, p, b) ==
    /\ \A v \in Doing(p, b) : v = w
    /\ build[b] = Gone \/ (InDB(b) /\ build[b].built)
    /\ Same(job[w].msg) =>
        /\ job[w].held <=> <<p, b>> \in members
        /\ job[w].changed
             \/ \A r \in product[p].repos \cap ReposOf[b] : IsOff(p, b, r) \/ Agrees(p, b, r)
    /\ job[w].stage = "looked" /\ build[b] # Gone =>
        \A r \in job[w].repos \cap ReposOf[b] :
            r \in job[w].todo \/ (<<b, r>> \in content[p] <=> job[w].msg.change = "add")
LoneInv ==
    \A w \in Worker : job[w] # None /\ job[w].alone => Lone(w, job[w].msg.product, job[w].msg.build)

\* Repositories a modification does not know are left open until the next one.
Apart(w, p, b) ==
    product[p] # None => \A r \in product[p].repos :
        IsOff(p, b, r) \/ (Same(job[w].msg) /\ r \in job[w].repos)
ApartInv == \A w \in Worker : job[w] # None => Apart(w, job[w].msg.product, job[w].msg.build)

HoldInv == IdInv /\ LoneInv /\ ApartInv /\ ProductHoldsItsBuilds

LEMMA DoingIs ==
    \A p, b : \A w \in Worker :
        w \in Doing(p, b) <=> job[w] # None /\ job[w].msg.product = p /\ job[w].msg.build = b
  BY DEF Doing

LEMMA HoldsIs ==
    ProductHoldsItsBuilds <=>
        \A p \in Product, b \in Build : product[p] # None /\ Doing(p, b) = {} =>
            \A r \in product[p].repos \cap ReposOf[b] : IsOff(p, b, r) \/ Agrees(p, b, r)
  BY DEF ProductHoldsItsBuilds, IsOff, Agrees

LEMMA PairIs ==
    \A p, b, repos, q, c, r : <<q, <<c, r>>>> \in Pair(p, b, repos) <=> q = p /\ c = b /\ r \in repos
  BY DEF Pair

\* Steps that touch neither products, members, repositories nor workers.
LEMMA HoldFrame ==
    ASSUME TypeOK, LoneInv, ApartInv, ProductHoldsItsBuilds,
           UNCHANGED <<product, members, content, off, job>>,
           \A b \in Build : build[b] = Gone => build'[b] = Gone,
           \A b \in Build : InDB(b) /\ build[b].built =>
              build'[b] = Gone \/ (InDB(b)' /\ build'[b].built)
    PROVE  LoneInv' /\ ApartInv' /\ ProductHoldsItsBuilds'
<1>1. \A w \in Worker : job[w] # None => job[w].msg.product \in Product /\ job[w].msg.build \in Build
  BY DEF TypeOK, Job, Message
<1>2. \A p, b : Doing(p, b)' = Doing(p, b)
  BY DEF Doing
<1>3. LoneInv'
  BY <1>1, <1>2 DEF LoneInv, Lone, Same, IsOff, Agrees
<1>4. ApartInv'
  BY <1>1 DEF ApartInv, Apart, Same, IsOff
<1>5. ProductHoldsItsBuilds'
  BY <1>2 DEF ProductHoldsItsBuilds
<1> QED
  BY <1>3, <1>4, <1>5

\* How the job of a worker changes, and what that leaves of the others.
LEMMA Loads ==
    ASSUME TypeOK, NEW w \in Worker, NEW m \in queue, Load(w, m)
    PROVE  /\ job[w] = None
           /\ \A v \in Worker : job'[v] # None =>
                job'[v].msg = m \/ (job[v] # None /\ job'[v].msg = job[v].msg)
           /\ \/ job' = job
              \/ /\ Same(m) /\ InDB(m.build)
                 /\ job'[w] = [msg |-> m, held |-> <<m.product, m.build>> \in members,
                               repos |-> product[m.product].repos, todo |-> {},
                               stage |-> "loaded", changed |-> FALSE,
                               alone |-> Doing(m.product, m.build) = {} /\ build[m.build].built]
                 /\ \A v \in Worker \ {w} :
                      IF v \in Doing(m.product, m.build)
                      THEN job[v] # None /\ job'[v] = [job[v] EXCEPT !.alone = FALSE]
                      ELSE job'[v] = job[v]
<1> DEFINE p == m.product
           b == m.build
           new == [msg |-> m, held |-> <<p, b>> \in members, repos |-> product[p].repos,
                   todo |-> {}, stage |-> "loaded", changed |-> FALSE,
                   alone |-> Doing(p, b) = {} /\ build[b].built]
<1>1. job[w] = None
  BY DEF Load
<1>2. job' = job \/ (Same(m) /\ InDB(b)
                     /\ job' = [v \in Worker |-> CASE v = w -> new
                                  [] v \in Doing(p, b) -> [job[v] EXCEPT !.alone = FALSE]
                                  [] OTHER -> job[v]])
  BY DEF Load
<1>3. \A v \in Doing(p, b) : job[v] # None /\ job[v] \in Job
  BY DEF Doing, TypeOK
<1>4. new.msg = m
  OBVIOUS
<1>5. CASE job' = job
  BY <1>1, <1>5
<1>6. CASE job' # job
  <2> HIDE DEF new, p, b
  <2>1. /\ Same(m) /\ InDB(b) /\ job'[w] = new
        /\ \A v \in Worker \ {w} :
             IF v \in Doing(p, b) THEN job'[v] = [job[v] EXCEPT !.alone = FALSE]
             ELSE job'[v] = job[v]
    <3>1. job' = [v \in Worker |-> CASE v = w -> new
                                    [] v \in Doing(p, b) -> [job[v] EXCEPT !.alone = FALSE]
                                    [] OTHER -> job[v]]
      BY <1>2, <1>6
    <3>2. w \notin Doing(p, b)
      BY <1>1 DEF Doing
    <3>3. job'[w] = new
      BY <3>1, <3>2
    <3>4. \A v \in Worker \ {w} : IF v \in Doing(p, b) THEN job'[v] = [job[v] EXCEPT !.alone = FALSE]
                                                       ELSE job'[v] = job[v]
      BY <3>1
    <3> QED
      BY <1>2, <1>6, <3>3, <3>4
  <2>2. \A v \in Doing(p, b) : [job[v] EXCEPT !.alone = FALSE].msg = job[v].msg
    BY <1>3 DEF Job
  <2> QED
    BY <1>1, <1>3, <1>4, <2>1, <2>2 DEF new, p, b
<1> QED
  BY <1>5, <1>6

LEMMA Works ==
    ASSUME TypeOK, NEW w \in Worker,
           Look(w) \/ (\E r \in Repo : Modify(w, r)) \/ Finish(w) \/ Lose(w)
    PROVE  /\ job[w] # None /\ job[w] \in Job
           /\ job'[w] # None => job'[w].msg = job[w].msg
           /\ \A v \in Worker : v # w => job'[v] = job[v]
<1>1. job[w] # None /\ job[w] \in Job
  BY DEF Look, Modify, Finish, Lose, TypeOK
<1>2. \A new : job' = [job EXCEPT ![w] = new] =>
        job'[w] = new /\ \A v \in Worker : v # w => job'[v] = job[v]
  BY DEF TypeOK
<1>3. CASE Look(w)
  <2>1. PICK todo : job' = [job EXCEPT ![w] = [job[w] EXCEPT !.stage = "looked", !.todo = todo]]
    BY <1>3 DEF Look
  <2>2. [job[w] EXCEPT !.stage = "looked", !.todo = todo].msg = job[w].msg
    BY <1>1 DEF Job
  <2> QED
    BY <1>1, <1>2, <2>1, <2>2
<1>4. ASSUME NEW r \in Repo, Modify(w, r)
      PROVE  /\ job'[w].msg = job[w].msg
             /\ \A v \in Worker : v # w => job'[v] = job[v]
  <2>1. job' = [job EXCEPT ![w] = [job[w] EXCEPT !.todo = @ \ {r}, !.changed = TRUE]]
    BY <1>4 DEF Modify
  <2>2. [job[w] EXCEPT !.todo = @ \ {r}, !.changed = TRUE].msg = job[w].msg
    BY <1>1 DEF Job
  <2> QED
    BY <1>2, <2>1, <2>2
<1>5. CASE Finish(w) \/ Lose(w)
  <2>1. job' = [job EXCEPT ![w] = None]
    BY <1>5 DEF Finish, Lose
  <2> QED
    BY <1>1, <1>2, <2>1
<1> QED
  BY <1>1, <1>3, <1>4, <1>5

LEMMA IdStep == TypeOK /\ IdInv /\ [Next]_vars => IdInv'
<1> SUFFICES ASSUME TypeOK, IdInv, [Next]_vars PROVE IdInv'
  OBVIOUS
<1> USE DEF IdInv, TypeOK
<1>0. events \in Nat /\ \A p \in Product : product[p] # None => product[p].id \in Nat
  BY ProductsAssumption DEF ProductRow
<1>1. ASSUME UNCHANGED <<product, removal>>, events' = events \/ events' = events + 1,
             \A m \in Message : Sent(m)' => Sent(m)
      PROVE  IdInv'
  BY <1>0, <1>1 DEF Older, Message
<1>2. ASSUME NEW p \in Product, NEW repos \in SUBSET Repo, NEW c, CreateProduct(p, repos, c)
      PROVE  IdInv'
  <2>1. UNCHANGED <<removal, events, queue, job>> /\ product[p] = None
    BY <1>2 DEF CreateProduct, workVars
  <2>2. CASE product' = product
    BY <1>1, <2>1, <2>2 DEF Sent
  <2>3. CASE product' = [product EXCEPT ![p] = [id |-> events, repos |-> repos]]
    <3>1. product'[p].id = events /\ \A q \in Product : q # p => product'[q] = product[q]
      BY <2>3
    <3>2. \A m \in Message : Sent(m)' => Older(m)'
      BY <1>0, <2>1, <3>1 DEF Sent, Older, Message
    <3> QED
      BY <1>0, <2>1, <3>1, <3>2
  <2> QED
    BY <1>2, <2>2, <2>3 DEF CreateProduct, teamVars
<1>3. ASSUME NEW u \in User, NEW p \in Product, NEW repos \in SUBSET Repo, AddPlatform(u, p, repos)
      PROVE  IdInv'
  <2> DEFINE row == [product[p] EXCEPT !.repos = @ \cup repos]
  <2>1. /\ UNCHANGED <<removal, queue, job>> /\ events' = events + 1 /\ product[p] # None
        /\ product' = [product EXCEPT ![p] = row]
    BY <1>3 DEF AddPlatform, Request, workVars
  <2>2. row.id = product[p].id /\ row \in ProductRow
    BY <2>1 DEF ProductRow
  <2>3. row # None
    BY <2>2, MarkersAssumption
  <2> HIDE DEF row
  <2>4. product'[p] = row /\ \A q \in Product : q # p => product'[q] = product[q]
    BY <2>1
  <2>5. \A m \in Message : Sent(m)' => Older(m)'
    BY <1>0, <2>1, <2>2, <2>3, <2>4 DEF Sent, Older, Message
  <2> QED
    BY <1>0, <2>1, <2>2, <2>3, <2>4, <2>5
<1>4. ASSUME NEW u \in User, NEW p \in Product, NEW b \in Build, NEW c \in Change,
             ModifyProduct(u, p, b, c)
      PROVE  IdInv'
  <2> DEFINE new == [id |-> events', build |-> b, product |-> p, of |-> product[p].id, change |-> c]
  <2>1. /\ UNCHANGED <<product, removal, job>> /\ events' = events + 1 /\ product[p] # None
        /\ queue' = queue \cup {new}
    BY <1>4 DEF ModifyProduct, Request
  <2>2. new.product = p /\ new.of = product[p].id
    OBVIOUS
  <2> HIDE DEF new
  <2>3. \A m \in Message : Sent(m)' => Sent(m) \/ m = new
    BY <2>1 DEF Sent
  <2>4. \A m \in Message : Sent(m)' => Older(m)'
    BY <1>0, <2>1, <2>2, <2>3 DEF Older, Message
  <2> QED
    BY <1>0, <2>1, <2>4
<1>5. ASSUME NEW u \in User, NEW p \in Product, BeginRemoval(u, p) PROVE IdInv'
  <2>1. /\ UNCHANGED <<product, queue, job>> /\ events' = events + 1 /\ product[p] # None
        /\ \A q \in Product : q # p => removal'[q] = removal[q]
    BY <1>5 DEF BeginRemoval, Request, workVars
  <2> QED
    BY <1>0, <2>1 DEF Sent, Older, Message
<1>6. ASSUME NEW p \in Product, EndRemoval(p) PROVE IdInv'
  <2>1. /\ UNCHANGED <<queue, job, events>> /\ removal[p] # None /\ removal'[p] = None
        /\ \A q \in Product : q # p => removal'[q] = removal[q] /\ product'[q] = product[q]
        /\ product'[p] = product[p] \/ product'[p] = None
    BY <1>6 DEF EndRemoval, workVars
  <2>2. \A m \in Message : Sent(m)' => Older(m)'
    BY <1>0, <2>1 DEF Sent, Older, Message
  <2> QED
    BY <1>0, <2>1, <2>2
<1>7. ASSUME NEW w \in Worker, NEW m \in queue, Load(w, m) PROVE IdInv'
  <2>1. /\ UNCHANGED <<product, removal, events>> /\ queue' \subseteq queue
        /\ \A v \in Worker : job'[v] # None =>
              job'[v].msg = m \/ (job[v] # None /\ job'[v].msg = job[v].msg)
    BY <1>7, Loads DEF Load, leaveVars
  <2>2. \A x \in Message : Sent(x)' => Sent(x)
    BY <2>1 DEF Sent
  <2> QED
    BY <1>1, <2>1, <2>2
<1>8. ASSUME NEW w \in Worker, Look(w) \/ (\E r \in Repo : Modify(w, r)) \/ Finish(w) \/ Lose(w)
      PROVE  IdInv'
  <2>1. /\ UNCHANGED <<product, removal, events>> /\ queue' \subseteq queue \cup {job[w].msg}
        /\ job[w] # None /\ (job'[w] # None => job'[w].msg = job[w].msg)
        /\ \A v \in Worker : v # w => job'[v] = job[v]
    BY <1>8, Works DEF Look, Modify, Finish, Lose
  <2>2. \A x \in Message : Sent(x)' => Sent(x)
    BY <2>1 DEF Sent
  <2> QED
    BY <1>1, <2>1, <2>2
<1>9. CASE /\ UNCHANGED <<product, removal, queue, job>>
           /\ events' = events \/ events' = events + 1
  BY <1>1, <1>9 DEF Sent
<1> QED
  BY <1>2, <1>3, <1>4, <1>5, <1>6, <1>7, <1>8, <1>9
     DEF Next, vars, workVars, Request, CreateBuild, FinishBuild, RemoveBuild, AskToRemove, Leave,
         Left, Stay, LeaveBuild, ChangeTeam
LEMMA JobPairs ==
    ASSUME TypeOK, IdInv, NEW w \in Worker, job[w] # None
    PROVE  /\ job[w] \in Job /\ job[w].msg \in Message
           /\ job[w].msg.product \in Product /\ job[w].msg.build \in Build
           /\ Older(job[w].msg) /\ w \in Doing(job[w].msg.product, job[w].msg.build)
  BY DEF TypeOK, Job, Message, IdInv, Sent, Doing

\* A product is created, gets a platform or is removed.
LEMMA ProductHolds ==
    ASSUME TypeOK, HoldInv,
           \/ \E p \in Product, repos \in SUBSET Repo \ {{}}, c \in BOOLEAN : CreateProduct(p, repos, c)
           \/ \E u \in User, p \in Product, repos \in SUBSET Repo \ {{}} : AddPlatform(u, p, repos)
           \/ \E p \in Product : EndRemoval(p)
    PROVE  LoneInv' /\ ApartInv' /\ ProductHoldsItsBuilds'
<1> USE DEF HoldInv
<1>0. /\ \A w \in Worker : job[w] # None => Lone(w, job[w].msg.product, job[w].msg.build) \/ ~job[w].alone
      /\ \A w \in Worker : job[w] # None => Apart(w, job[w].msg.product, job[w].msg.build)
  BY DEF LoneInv, ApartInv
<1>1. ASSUME UNCHANGED <<members, content, job, build>>,
             NEW q \in Product, \A p \in Product : p # q => product'[p] = product[p],
             \A p \in Product : p # q => \A b, r : (IsOff(p, b, r)' <=> IsOff(p, b, r)),
             \A w \in Worker : job[w] # None /\ job[w].msg.product = q =>
                /\ Same(job[w].msg)' => Same(job[w].msg)
                /\ product'[q] # None => \A r \in product'[q].repos :
                     \/ IsOff(q, job[w].msg.build, r)'
                     \/ /\ Same(job[w].msg)' /\ r \in product[q].repos
                        /\ IsOff(q, job[w].msg.build, r) => IsOff(q, job[w].msg.build, r)',
             product'[q] # None => \A b \in Build : Doing(q, b) = {} =>
                \A r \in product'[q].repos \cap ReposOf[b] : IsOff(q, b, r)' \/ Agrees(q, b, r)
      PROVE  LoneInv' /\ ApartInv' /\ ProductHoldsItsBuilds'
  <2>1. \A p, b : Doing(p, b)' = Doing(p, b)
    BY <1>1 DEF Doing
  <2>2. \A p, b, r : Agrees(p, b, r)' <=> Agrees(p, b, r)
    BY <1>1 DEF Agrees
  <2>3. \A b : InDB(b)' <=> InDB(b)
    BY <1>1 DEF InDB
  <2>4. ASSUME NEW w \in Worker, job[w] # None
        PROVE  /\ Apart(w, job[w].msg.product, job[w].msg.build)'
               /\ job[w].alone => Lone(w, job[w].msg.product, job[w].msg.build)'
    <3> DEFINE p == job[w].msg.product
               b == job[w].msg.build
    <3>1. p \in Product /\ b \in Build
      BY <2>4, JobPairs
    <3>2. Apart(w, p, b) /\ (job[w].alone => Lone(w, p, b))
      BY <1>0, <2>4
    <3>3. CASE p # q
      <4>1. product'[p] = product[p] /\ \A r : IsOff(p, b, r)' <=> IsOff(p, b, r)
        BY <1>1, <3>1, <3>3
      <4>2. Same(job[w].msg)' <=> Same(job[w].msg)
        BY <1>1, <4>1 DEF Same
      <4> QED
        BY <1>1, <2>1, <2>2, <2>3, <3>2, <4>1, <4>2 DEF Apart, Lone
    <3>4. CASE p = q
      <4>1. Same(job[w].msg)' => Same(job[w].msg)
        BY <1>1, <2>4, <3>4
      <4>2. product'[q] # None => \A r \in product'[q].repos :
               IsOff(q, b, r)' \/ (/\ Same(job[w].msg)' /\ r \in product[q].repos
                                   /\ IsOff(q, b, r) => IsOff(q, b, r)')
        BY <1>1, <2>4, <3>4
      <4>3. Same(job[w].msg)' => product'[q] # None
        BY <1>1, <3>4 DEF Same
      <4>4. Same(job[w].msg) => product[q] # None
        BY <3>4 DEF Same
      <4>5. Apart(w, p, b)'
        BY <1>1, <3>2, <3>4, <4>1, <4>2, <4>4 DEF Apart
      <4>6. job[w].alone => Lone(w, p, b)'
        BY <1>1, <2>1, <2>2, <2>3, <3>2, <3>4, <4>1, <4>2, <4>3 DEF Lone
      <4> QED
        BY <4>5, <4>6
    <3> QED
      BY <3>3, <3>4
  <2>5. LoneInv' /\ ApartInv'
    BY <1>1, <2>4 DEF LoneInv, ApartInv
  <2>6. ASSUME NEW p \in Product, NEW b \in Build, product'[p] # None, Doing(p, b) = {},
               NEW r \in product'[p].repos \cap ReposOf[b]
        PROVE  IsOff(p, b, r)' \/ Agrees(p, b, r)
    BY <1>1, <2>6, HoldsIs
  <2>7. ProductHoldsItsBuilds'
    BY <2>1, <2>2, <2>6 DEF ProductHoldsItsBuilds, IsOff, Agrees
  <2> QED
    BY <2>5, <2>7
<1>2. ASSUME NEW q \in Product, NEW repos \in SUBSET Repo, NEW c, CreateProduct(q, repos, c)
      PROVE  LoneInv' /\ ApartInv' /\ ProductHoldsItsBuilds'
  <2>1. product[q] = None /\ UNCHANGED <<members, content, job, build>>
    BY <1>2 DEF CreateProduct, workVars
  <2>2. CASE UNCHANGED <<product, off>>
    BY <2>1, <2>2, HoldFrame DEF InDB
  <2>3. CASE /\ product' = [product EXCEPT ![q] = [id |-> events, repos |-> repos]]
             /\ off' = (off \ ({q} \X Units)) \cup Leftover(q, repos)
    <3>1. /\ product'[q] = [id |-> events, repos |-> repos]
          /\ \A p \in Product : p # q => product'[p] = product[p]
      BY <2>3 DEF TypeOK
    <3>2. \A p \in Product : p # q => \A b, r : (IsOff(p, b, r)' <=> IsOff(p, b, r))
      BY <2>3, LeftoverPairs DEF IsOff
    <3>3. \A b \in Build, r \in repos : IsOff(q, b, r)' \/ (Doing(q, b) = {} /\ Agrees(q, b, r))
      BY <2>3, LeftoverPairs DEF IsOff, Agrees
    <3>4. ASSUME NEW w \in Worker, job[w] # None, job[w].msg.product = q
          PROVE  ~Same(job[w].msg)' /\ \A r \in repos : IsOff(q, job[w].msg.build, r)'
      <4>1. job[w].msg.of < events /\ job[w].msg.of \in Int /\ events \in Int
        BY <2>1, <3>4, JobPairs, ProductsAssumption DEF Older, Message, TypeOK
      <4>2. ~Same(job[w].msg)'
        BY <2>1, <3>1, <3>4, <4>1 DEF Same
      <4>3. Doing(q, job[w].msg.build) # {} /\ job[w].msg.build \in Build
        BY <3>4, JobPairs
      <4> QED
        BY <2>1, <3>3, <4>2, <4>3
    <3>5. product'[q].repos = repos
      BY <3>1
    <3>6. \A b \in Build : Doing(q, b) = {} =>
             \A r \in product'[q].repos \cap ReposOf[b] : IsOff(q, b, r)' \/ Agrees(q, b, r)
      BY <3>3, <3>5
    <3>7. \A w \in Worker : job[w] # None /\ job[w].msg.product = q =>
             /\ Same(job[w].msg)' => Same(job[w].msg)
             /\ \A r \in product'[q].repos : IsOff(q, job[w].msg.build, r)'
      BY <3>4, <3>5
    <3> QED
      BY <1>1, <2>1, <3>1, <3>2, <3>6, <3>7
  <2> QED
    BY <1>2, <2>2, <2>3 DEF CreateProduct
<1>3. ASSUME NEW u \in User, NEW q \in Product, NEW repos \in SUBSET Repo, AddPlatform(u, q, repos)
      PROVE  LoneInv' /\ ApartInv' /\ ProductHoldsItsBuilds'
  <2> DEFINE row == [product[q] EXCEPT !.repos = @ \cup repos]
             new == repos \ product[q].repos
  <2>1. /\ product[q] # None /\ product' = [product EXCEPT ![q] = row]
        /\ off' = off \cup Leftover(q, new)
        /\ UNCHANGED <<members, content, job, build>>
    BY <1>3 DEF AddPlatform, workVars
  <2>2. product[q] \in ProductRow
    BY <2>1 DEF TypeOK
  <2>3. row.id = product[q].id /\ row.repos = product[q].repos \cup new /\ row # None
    BY <2>2, MarkersAssumption DEF ProductRow
  <2>4. new \in SUBSET Repo
    OBVIOUS
  <2> HIDE DEF row, new
  <2>5. product'[q] = row /\ \A p \in Product : p # q => product'[p] = product[p]
    BY <2>1 DEF TypeOK
  <2>6. \A p \in Product : p # q => \A b, r : (IsOff(p, b, r)' <=> IsOff(p, b, r))
    BY <2>1, <2>4, LeftoverPairs DEF IsOff
  <2>7. \A b \in Build, r \in new : IsOff(q, b, r)' \/ (Doing(q, b) = {} /\ Agrees(q, b, r))
    BY <2>1, <2>4, LeftoverPairs DEF IsOff, Agrees
  <2>8. \A b, r : IsOff(q, b, r) => IsOff(q, b, r)'
    BY <2>1 DEF IsOff
  <2>9. ASSUME NEW w \in Worker, job[w] # None, job[w].msg.product = q
        PROVE  /\ Same(job[w].msg)' <=> Same(job[w].msg)
               /\ \A r \in product'[q].repos :
                    IsOff(q, job[w].msg.build, r)' \/ (Same(job[w].msg) /\ r \in product[q].repos)
    <3>1. Same(job[w].msg)' <=> Same(job[w].msg)
      BY <2>1, <2>3, <2>5, <2>9 DEF Same
    <3>2. Apart(w, q, job[w].msg.build)
      BY <1>0, <2>9
    <3>3. Doing(q, job[w].msg.build) # {} /\ job[w].msg.build \in Build
      BY <2>9, JobPairs
    <3> QED
      BY <2>1, <2>3, <2>5, <2>7, <2>8, <3>1, <3>2, <3>3 DEF Apart
  <2>10. \A b \in Build : Doing(q, b) = {} =>
            \A r \in product'[q].repos \cap ReposOf[b] : IsOff(q, b, r)' \/ Agrees(q, b, r)
    <3> SUFFICES ASSUME NEW b \in Build, Doing(q, b) = {}, NEW r \in product'[q].repos \cap ReposOf[b]
                 PROVE  IsOff(q, b, r)' \/ Agrees(q, b, r)
      OBVIOUS
    <3>1. CASE r \in new
      BY <2>7, <3>1
    <3>2. CASE r \in product[q].repos
      BY <2>1, <2>8, <3>2, HoldsIs
    <3> QED
      BY <2>3, <2>5, <3>1, <3>2
  <2> QED
    BY <1>1, <2>1, <2>5, <2>6, <2>8, <2>9, <2>10
<1>4. ASSUME NEW q \in Product, EndRemoval(q)
      PROVE  LoneInv' /\ ApartInv' /\ ProductHoldsItsBuilds'
  <2>1. UNCHANGED <<content, job, build, off>>
    BY <1>4 DEF EndRemoval, pulpVars, workVars
  <2>2. CASE UNCHANGED <<product, members>>
    BY <2>1, <2>2, HoldFrame DEF InDB
  <2>3. CASE /\ product' = [product EXCEPT ![q] = None] /\ members' = members \ ({q} \X Build)
    <3>1. product'[q] = None /\ \A p \in Product : p # q => product'[p] = product[p]
      BY <2>3 DEF TypeOK
    <3>2. \A p, b, r : p # q => (Agrees(p, b, r)' <=> Agrees(p, b, r))
                                 /\ (<<p, b>> \in members' <=> <<p, b>> \in members)
      BY <2>1, <2>3 DEF Agrees
    <3>3. \A p, b : Doing(p, b)' = Doing(p, b)
      BY <2>1 DEF Doing
    <3>4. \A p, b, r : IsOff(p, b, r)' <=> IsOff(p, b, r)
      BY <2>1 DEF IsOff
    <3>5. \A b : InDB(b)' <=> InDB(b)
      BY <2>1 DEF InDB
    <3>6. ASSUME NEW w \in Worker, job[w] # None
          PROVE  /\ Apart(w, job[w].msg.product, job[w].msg.build)'
                 /\ job[w].alone => Lone(w, job[w].msg.product, job[w].msg.build)'
      <4> DEFINE p == job[w].msg.product
                 b == job[w].msg.build
      <4>1. p \in Product /\ Apart(w, p, b) /\ (job[w].alone => Lone(w, p, b))
        BY <1>0, <3>6, JobPairs
      <4>2. CASE p = q
        <5>1. ~Same(job[w].msg)'
          BY <2>1, <3>1, <4>2 DEF Same
        <5> QED
          BY <2>1, <3>1, <3>3, <3>5, <4>1, <4>2, <5>1 DEF Apart, Lone
      <4>3. CASE p # q
        <5>1. Same(job[w].msg)' <=> Same(job[w].msg)
          BY <2>1, <3>1, <4>1, <4>3 DEF Same
        <5> QED
          BY <2>1, <3>1, <3>2, <3>3, <3>4, <3>5, <4>1, <4>3, <5>1 DEF Apart, Lone
      <4> QED
        BY <4>2, <4>3
    <3>7. LoneInv' /\ ApartInv'
      BY <2>1, <3>6 DEF LoneInv, ApartInv
    <3>8. ASSUME NEW p \in Product, NEW b \in Build, product'[p] # None, Doing(p, b) = {},
                 NEW r \in product'[p].repos \cap ReposOf[b]
          PROVE  IsOff(p, b, r) \/ Agrees(p, b, r)'
      BY <3>1, <3>2, <3>8, HoldsIs
    <3>9. ProductHoldsItsBuilds'
      BY <3>3, <3>4, <3>8 DEF ProductHoldsItsBuilds, IsOff, Agrees
    <3> QED
      BY <3>7, <3>9
  <2> QED
    BY <1>4, <2>2, <2>3 DEF EndRemoval
<1> QED
  BY <1>2, <1>3, <1>4
\* A step that leaves a pair of a product and a build alone.
LEMMA PairStays ==
    ASSUME NEW v \in Worker, NEW p, NEW b, p = job[v].msg.product, b = job[v].msg.build,
           job'[v] = job[v], UNCHANGED <<product, build>>,
           Doing(p, b)' \subseteq Doing(p, b), <<p, b>> \in members' <=> <<p, b>> \in members,
           \A r : <<b, r>> \in content'[p] <=> <<b, r>> \in content[p],
           \A r : IsOff(p, b, r)' <=> IsOff(p, b, r)
    PROVE  /\ Lone(v, p, b) => Lone(v, p, b)'
           /\ Apart(v, p, b) => Apart(v, p, b)'
<1>1. Same(job[v].msg)' <=> Same(job[v].msg)
  BY DEF Same
<1>2. InDB(b)' <=> InDB(b)
  BY DEF InDB
<1>3. \A r : Agrees(p, b, r)' <=> Agrees(p, b, r)
  BY DEF Agrees
<1> QED
  BY <1>1, <1>2, <1>3 DEF Lone, Apart

\* A message is loaded: its pair is being modified, by nobody alone if it was before.
LEMMA LoadHolds ==
    ASSUME TypeOK, HoldInv, NEW w \in Worker, NEW m \in queue, Load(w, m)
    PROVE  LoneInv' /\ ApartInv' /\ ProductHoldsItsBuilds'
<1> DEFINE p == m.product
           b == m.build
<1>1. UNCHANGED <<product, members, content, off, build>>
  BY DEF Load, pulpVars
<1>2. p \in Product /\ b \in Build
  BY DEF TypeOK, Message
<1>3. CASE job' = job
  BY <1>1, <1>3, HoldFrame DEF InDB, HoldInv
<1>4. CASE job' # job
  <2>1. /\ Same(m) /\ InDB(b) /\ job[w] = None
        /\ job'[w] = [msg |-> m, held |-> <<p, b>> \in members, repos |-> product[p].repos,
                      todo |-> {}, stage |-> "loaded", changed |-> FALSE,
                      alone |-> Doing(p, b) = {} /\ build[b].built]
        /\ \A v \in Worker \ {w} :
              IF v \in Doing(p, b) THEN job[v] # None /\ job'[v] = [job[v] EXCEPT !.alone = FALSE]
                                   ELSE job'[v] = job[v]
    BY <1>4, Loads
  <2>2. /\ job'[w].msg = m /\ job'[w].held = (<<p, b>> \in members) /\ job'[w].repos = product[p].repos
        /\ job'[w].stage = "loaded" /\ (job'[w].alone <=> Doing(p, b) = {} /\ build[b].built)
    <3>1. job'[w].msg = m /\ job'[w].repos = product[p].repos /\ job'[w].stage = "loaded"
      BY <2>1
    <3>2. job'[w].held = (<<p, b>> \in members)
      BY <2>1
    <3>3. job'[w].alone = (Doing(p, b) = {} /\ build[b].built)
      BY <2>1
    <3> QED
      BY <3>1, <3>2, <3>3
  <2>3. \A v \in Doing(p, b) : /\ v \in Worker \ {w} /\ job[v] # None
                               /\ job'[v].msg = job[v].msg /\ job'[v].repos = job[v].repos
                               /\ job'[v].alone = FALSE
                               /\ job'[v] # None
    <3> SUFFICES ASSUME NEW v \in Doing(p, b)
                 PROVE  /\ v \in Worker \ {w} /\ job[v] # None
                        /\ job'[v].msg = job[v].msg /\ job'[v].repos = job[v].repos
                        /\ job'[v].alone = FALSE /\ job'[v] # None
      OBVIOUS
    <3>1. v \in Worker \ {w} /\ job[v] # None /\ job[v] \in Job
      BY <2>1 DEF Doing, TypeOK
    <3>2. job'[v] = [job[v] EXCEPT !.alone = FALSE]
      BY <2>1, <3>1
    <3>3. /\ job'[v].msg = job[v].msg /\ job'[v].repos = job[v].repos /\ job'[v].alone = FALSE
          /\ job'[v] \in Job
      BY <3>1, <3>2 DEF Job
    <3> QED
      BY <3>1, <3>3, MarkersAssumption
  <2>4. \A v \in Worker \ {w} : job[v] = None => job'[v] = None
    BY <2>1 DEF Doing
  <2>5. \A q, c : Doing(q, c)' \subseteq Doing(q, c) \cup {w}
    BY <2>1, <2>3, <2>4 DEF Doing
  <2>6. \A q, c : w \in Doing(q, c)' => q = p /\ c = b
    BY <2>2 DEF Doing
  <2>7. Same(m)' <=> Same(m)
    BY <1>1 DEF Same
  <2>8. job'[w].alone => Lone(w, p, b)'
    <3> SUFFICES ASSUME job'[w].alone PROVE Lone(w, p, b)'
      OBVIOUS
    <3>1. Doing(p, b) = {} /\ build[b].built
      BY <2>2
    <3>2. \A v \in Doing(p, b)' : v = w
      BY <2>5, <3>1
    <3>3. InDB(b)'
      BY <1>1, <2>1 DEF InDB
    <3>4. \A r \in product[p].repos \cap ReposOf[b] : IsOff(p, b, r)' \/ Agrees(p, b, r)'
      BY <1>1, <1>2, <2>1, <3>1, HoldsIs DEF HoldInv, Same, IsOff, Agrees
    <3> QED
      BY <1>1, <2>2, <3>1, <3>2, <3>3, <3>4 DEF Lone
  <2>9. Apart(w, p, b)'
    BY <1>1, <2>1, <2>2, <2>7 DEF Apart
  <2>10. ASSUME NEW v \in Worker \ {w}, job'[v] # None
         PROVE  /\ Apart(v, job[v].msg.product, job[v].msg.build)'
                /\ job'[v].alone => Lone(v, job[v].msg.product, job[v].msg.build)'
    <3>1. job[v] # None
      BY <2>4, <2>10
    <3>2. /\ Apart(v, job[v].msg.product, job[v].msg.build)
          /\ job[v].alone => Lone(v, job[v].msg.product, job[v].msg.build)
      BY <3>1 DEF HoldInv, ApartInv, LoneInv
    <3>3. CASE v \in Doing(p, b)
      <4>1. /\ job'[v].msg = job[v].msg /\ job'[v].repos = job[v].repos /\ job'[v].alone = FALSE
        BY <2>3, <3>3
      <4>2. Apart(v, job[v].msg.product, job[v].msg.build)'
        BY <1>1, <3>2, <4>1 DEF Apart, Same, IsOff
      <4> QED
        BY <4>1, <4>2
    <3>4. CASE v \notin Doing(p, b)
      <4>1. job'[v] = job[v]
        BY <2>1, <3>4
      <4>2. PICK q, c : q = job[v].msg.product /\ c = job[v].msg.build
        OBVIOUS
      <4>3. q # p \/ c # b
        BY <3>1, <3>4, <4>2, DoingIs
      <4>4. Doing(q, c)' \subseteq Doing(q, c)
        BY <2>5, <2>6, <4>3
      <4>5. \A o, d, r : IsOff(o, d, r)' <=> IsOff(o, d, r)
        BY <1>1 DEF IsOff
      <4> QED
        BY <1>1, <3>2, <4>1, <4>2, <4>4, <4>5, PairStays
    <3> QED
      BY <3>3, <3>4
  <2>11. LoneInv' /\ ApartInv'
    <3>1. job'[w].msg.product = p /\ job'[w].msg.build = b
      BY <2>2
    <3>2. LoneInv'
      BY <2>8, <2>10, <3>1 DEF LoneInv
    <3>3. ApartInv'
      BY <2>9, <2>10, <3>1 DEF ApartInv
    <3> QED
      BY <3>2, <3>3
  <2>12. \A q, c : Doing(q, c)' = {} => Doing(q, c) = {}
    <3> SUFFICES ASSUME NEW q, NEW c, NEW v \in Doing(q, c) PROVE v \in Doing(q, c)'
      OBVIOUS
    <3>1. v \in Worker /\ job[v] # None /\ job[v].msg.product = q /\ job[v].msg.build = c
      BY DEF Doing
    <3>2. job'[v] # None /\ job'[v].msg = job[v].msg
      BY <2>1, <2>3, <3>1
    <3> QED
      BY <3>1, <3>2 DEF Doing
  <2>13. ProductHoldsItsBuilds'
    BY <1>1, <2>12 DEF HoldInv, ProductHoldsItsBuilds
  <2> QED
    BY <2>11, <2>13
<1> QED
  BY <1>3, <1>4

\* The worker looks at the repositories, or changes one of them.
LEMMA ModifyHolds ==
    ASSUME TypeOK, HoldInv, NEW w \in Worker, Look(w) \/ \E r \in Repo : Modify(w, r)
    PROVE  LoneInv' /\ ApartInv' /\ ProductHoldsItsBuilds'
<1>0. PICK p, b : p = job[w].msg.product /\ b = job[w].msg.build
  OBVIOUS
<1>1. /\ UNCHANGED <<product, members, off, build>>
      /\ job[w] # None /\ job[w] \in Job /\ \A v \in Worker \ {w} : job'[v] = job[v]
  BY Works DEF Look, Modify, pulpVars
<1>2. p \in Product /\ b \in Build
  BY <1>0, <1>1, JobPairs DEF HoldInv
<1>3. /\ Apart(w, p, b) /\ (job[w].alone => Lone(w, p, b))
  BY <1>0, <1>1 DEF HoldInv, ApartInv, LoneInv
<1>4. \A q, c, r : IsOff(q, c, r)' <=> IsOff(q, c, r)
  BY <1>1 DEF IsOff
<1>5. ASSUME job'[w] # None, job'[w].msg = job[w].msg, job'[w].repos = job[w].repos,
             job'[w].alone = job[w].alone, job[w].alone => Lone(w, p, b)',
             \A q \in Product : \A c, r : q # p \/ c # b =>
                (<<c, r>> \in content'[q] <=> <<c, r>> \in content[q])
      PROVE  LoneInv' /\ ApartInv' /\ ProductHoldsItsBuilds'
  <2>1. \A q, c : Doing(q, c)' = Doing(q, c)
    BY <1>1, <1>5 DEF Doing
  <2>2. Apart(w, p, b)'
    BY <1>0, <1>1, <1>3, <1>4, <1>5 DEF Apart, Same
  <2>3. ASSUME NEW v \in Worker \ {w}, job[v] # None
        PROVE  /\ Apart(v, job[v].msg.product, job[v].msg.build)'
               /\ job[v].alone => Lone(v, job[v].msg.product, job[v].msg.build)'
    <3>1. /\ Apart(v, job[v].msg.product, job[v].msg.build)
          /\ job[v].alone => Lone(v, job[v].msg.product, job[v].msg.build)
      BY <2>3 DEF HoldInv, ApartInv, LoneInv
    <3>2. Apart(v, job[v].msg.product, job[v].msg.build)'
      BY <1>1, <1>4, <3>1 DEF Apart, Same
    <3>3. CASE job[v].msg.product = p /\ job[v].msg.build = b
      <4>1. w \in Doing(job[v].msg.product, job[v].msg.build)
        BY <1>0, <1>1, <3>3 DEF Doing
      <4>2. ~job[v].alone
        BY <3>1, <4>1 DEF Lone
      <4> QED
        BY <3>2, <4>2
    <3>4. CASE job[v].msg.product # p \/ job[v].msg.build # b
      <4>1. \A r : <<job[v].msg.build, r>> \in content'[job[v].msg.product] <=>
                   <<job[v].msg.build, r>> \in content[job[v].msg.product]
        BY <1>5, <2>3, <3>4, JobPairs DEF HoldInv
      <4> QED
        BY <1>1, <1>4, <2>1, <3>1, <3>2, <4>1, PairStays
    <3> QED
      BY <3>3, <3>4
  <2>4. LoneInv' /\ ApartInv'
    BY <1>0, <1>1, <1>5, <2>2, <2>3 DEF LoneInv, ApartInv
  <2>5. w \in Doing(p, b)
    BY <1>0, <1>1 DEF Doing
  <2>6. ProductHoldsItsBuilds'
    BY <1>1, <1>5, <2>1, <2>5 DEF HoldInv, ProductHoldsItsBuilds
  <2> QED
    BY <2>4, <2>6
<1>6. Same(job[w].msg) <=> product'[p] # None /\ product'[p].id = job[w].msg.of
  BY <1>0, <1>1 DEF Same
<1>7. CASE Look(w)
  <2> DEFINE mine == {r \in job[w].repos \cap ReposOf[b] : b \in stored}
             todo == Wanted(mine, Existing(p, b), job[w].msg.change)
             new == [job[w] EXCEPT !.stage = "looked", !.todo = todo]
  <2>1. /\ job'[w] = new /\ content' = content /\ (InDB(b) /\ build[b].built => b \in stored)
    BY <1>0, <1>7 DEF Look, pulpVars, TypeOK
  <2>2. /\ new.msg = job[w].msg /\ new.repos = job[w].repos /\ new.alone = job[w].alone
        /\ new.todo = todo /\ new.stage = "looked" /\ new.held = job[w].held
        /\ new.changed = job[w].changed /\ new \in Job
    <3>1. todo \in SUBSET Repo
      BY <1>1 DEF Wanted, Job
    <3> HIDE DEF todo
    <3> QED
      BY <1>1, <3>1 DEF Job
  <2>3. \A r \in job[w].repos \cap ReposOf[b] : b \in stored =>
           r \in todo \/ (<<b, r>> \in content[p] <=> job[w].msg.change = "add")
    BY <1>1 DEF Wanted, Existing, Job
  <2> HIDE DEF new, todo
  <2>4. new # None
    BY <2>2, MarkersAssumption
  <2>5. job[w].alone => Lone(w, p, b)'
    <3> SUFFICES ASSUME job[w].alone PROVE Lone(w, p, b)'
      OBVIOUS
    <3>1. Doing(p, b)' = Doing(p, b)
      BY <1>1, <2>1, <2>2, <2>4 DEF Doing
    <3>2. build[b] # Gone => b \in stored
      BY <1>3, <2>1 DEF Lone
    <3>3. \A r : Agrees(p, b, r)' <=> Agrees(p, b, r)
      BY <1>1, <2>1 DEF Agrees
    <3>4. Same(job[w].msg)' <=> Same(job[w].msg)
      BY <1>1, <2>1, <2>2 DEF Same
    <3>5. InDB(b)' <=> InDB(b)
      BY <1>1 DEF InDB
    <3> QED
      BY <1>0, <1>1, <1>3, <1>4, <2>1, <2>2, <2>3, <3>1, <3>2, <3>3, <3>4, <3>5 DEF Lone
  <2> QED
    BY <1>5, <2>1, <2>2, <2>4, <2>5
<1>8. ASSUME NEW x \in Repo, Modify(w, x)
      PROVE  LoneInv' /\ ApartInv' /\ ProductHoldsItsBuilds'
  <2> DEFINE new == [job[w] EXCEPT !.todo = @ \ {x}, !.changed = TRUE]
             held == IF job[w].msg.change = "add" THEN content[p] \cup {<<b, x>>}
                                                  ELSE content[p] \ {<<b, x>>}
  <2>1. job' = [job EXCEPT ![w] = new] /\ content' = [content EXCEPT ![p] = held]
    <3>1. job' = [job EXCEPT ![w] = new]
      BY <1>8 DEF Modify
    <3>2. content' = [content EXCEPT ![p] = IF job[w].msg.change = "add" THEN @ \cup {<<b, x>>}
                                                                     ELSE @ \ {<<b, x>>}]
      BY <1>0, <1>8 DEF Modify
    <3> QED
      BY <3>1, <3>2
  <2>2. job'[w] = new /\ content'[p] = held /\ \A q \in Product : q # p => content'[q] = content[q]
    BY <1>2, <2>1 DEF TypeOK
  <2>3. /\ new.msg = job[w].msg /\ new.repos = job[w].repos /\ new.alone = job[w].alone
        /\ new.todo = job[w].todo \ {x} /\ new.stage = job[w].stage /\ new.held = job[w].held
        /\ new.changed = TRUE /\ new \in Job
    <3>1. job[w].todo \ {x} \in SUBSET Repo
      BY <1>1 DEF Job
    <3> QED
      BY <1>1, <3>1 DEF Job
  <2>4. new # None
    BY <2>3, MarkersAssumption
  <2> HIDE DEF new
  <2>5. \A c, r : c # b \/ r # x => (<<c, r>> \in content'[p] <=> <<c, r>> \in content[p])
    BY <2>2
  <2>6. <<b, x>> \in content'[p] <=> job[w].msg.change = "add"
    BY <2>2
  <2>7. job[w].alone => Lone(w, p, b)'
    <3> SUFFICES ASSUME job[w].alone PROVE Lone(w, p, b)'
      OBVIOUS
    <3>1. Doing(p, b)' = Doing(p, b)
      BY <1>1, <2>2, <2>3, <2>4 DEF Doing
    <3>2. Same(job[w].msg)' <=> Same(job[w].msg)
      BY <1>1, <2>2, <2>3 DEF Same
    <3>3. InDB(b)' <=> InDB(b)
      BY <1>1 DEF InDB
    <3> QED
      BY <1>0, <1>1, <1>3, <2>2, <2>3, <2>5, <2>6, <3>1, <3>2, <3>3 DEF Lone
  <2>8. \A q \in Product : \A c, r : q # p \/ c # b =>
           (<<c, r>> \in content'[q] <=> <<c, r>> \in content[q])
    BY <2>2, <2>5
  <2> QED
    BY <1>5, <2>2, <2>3, <2>4, <2>7, <2>8
<1> QED
  BY <1>7, <1>8
\* The worker is done, or dies: what it may have left half way is left open.
LEMMA EndHolds ==
    ASSUME TypeOK, KeepInv, HoldInv, NEW w \in Worker, Finish(w) \/ Lose(w)
    PROVE  LoneInv' /\ ApartInv' /\ ProductHoldsItsBuilds'
<1>0. PICK p, b : p = job[w].msg.product /\ b = job[w].msg.build
  OBVIOUS
<1> DEFINE repos == job[w].repos
<1>1. /\ UNCHANGED <<product, content, build>>
      /\ job[w] # None /\ job[w] \in Job /\ \A v \in Worker \ {w} : job'[v] = job[v]
  BY Works DEF Finish, Lose, pulpVars
<1>2. job'[w] = None /\ p \in Product /\ b \in Build
  BY <1>0, <1>1, JobPairs DEF Finish, Lose, TypeOK, HoldInv
<1>3. Apart(w, p, b) /\ (job[w].alone => Lone(w, p, b))
  BY <1>0, <1>1 DEF HoldInv, ApartInv, LoneInv
<1>4. \A q, c : Doing(q, c)' = Doing(q, c) \ {w}
  BY <1>1, <1>2 DEF Doing
<1>5. \A q, c : q # p \/ c # b =>
        /\ <<q, c>> \in members' <=> <<q, c>> \in members
        /\ \A r : IsOff(q, c, r)' <=> IsOff(q, c, r)
  <2>1. CASE Finish(w)
    <3>1. /\ members' \in {members, members \cup {<<p, b>>}, members \ {<<p, b>>}}
          /\ off' \in {off \ Pair(p, b, repos), off \cup Pair(p, b, repos)}
      BY <1>0, <2>1 DEF Finish, Recorded
    <3> QED
      BY <3>1, PairIs DEF IsOff
  <2>2. CASE Lose(w)
    <3>1. members' = members /\ off' \in {off, off \cup Pair(p, b, repos)}
      BY <1>0, <2>2 DEF Lose
    <3> QED
      BY <3>1, PairIs DEF IsOff
  <2> QED
    BY <2>1, <2>2
<1>6. ASSUME ~job[w].alone
      PROVE  /\ \A r \in repos : IsOff(p, b, r)'
             /\ \A r : IsOff(p, b, r) => IsOff(p, b, r)'
  <2>1. off' = off \cup Pair(p, b, repos)
    BY <1>0, <1>6 DEF Finish, Lose
  <2> QED
    BY <2>1, PairIs DEF IsOff
<1>7. ASSUME NEW v \in Worker \ {w}, job[v] # None
      PROVE  /\ Apart(v, job[v].msg.product, job[v].msg.build)'
             /\ job[v].alone => Lone(v, job[v].msg.product, job[v].msg.build)'
  <2>1. PICK q, c : q = job[v].msg.product /\ c = job[v].msg.build
    OBVIOUS
  <2>2. Apart(v, q, c) /\ (job[v].alone => Lone(v, q, c))
    BY <1>7, <2>1 DEF HoldInv, ApartInv, LoneInv
  <2>3. CASE q = p /\ c = b
    <3>1. v \in Doing(p, b) /\ w \in Doing(p, b)
      BY <1>0, <1>1, <1>7, <2>1, <2>3, DoingIs
    <3>2. ~job[v].alone /\ ~job[w].alone
      BY <1>3, <2>2, <2>3, <3>1 DEF Lone
    <3>3. Apart(v, p, b)'
      BY <1>1, <1>6, <2>2, <2>3, <3>2 DEF Apart, Same
    <3> QED
      BY <1>1, <2>1, <2>3, <3>2, <3>3
  <2>4. CASE q # p \/ c # b
    <3>1. Doing(q, c)' \subseteq Doing(q, c)
      BY <1>4
    <3> QED
      BY <1>1, <1>5, <2>1, <2>2, <2>4, <3>1, PairStays
  <2> QED
    BY <2>3, <2>4
<1>8. LoneInv' /\ ApartInv'
  BY <1>1, <1>2, <1>7 DEF LoneInv, ApartInv
<1>9. ASSUME product[p] # None, NEW r \in product[p].repos \cap ReposOf[b]
      PROVE  IsOff(p, b, r)' \/ Agrees(p, b, r)'
  <2>1. (r \in repos /\ Same(job[w].msg)) \/ IsOff(p, b, r)
    BY <1>3, <1>9 DEF Apart
  <2>2. CASE ~job[w].alone
    BY <1>6, <2>1, <2>2
  <2>3. CASE job[w].alone /\ Finish(w)
    <3>1. off' = IF Same(job[w].msg) THEN off \ Pair(p, b, repos) ELSE off \cup Pair(p, b, repos)
      BY <1>0, <2>3 DEF Finish
    <3>2. CASE r \notin repos \/ ~Same(job[w].msg)
      BY <2>1, <3>1, <3>2, PairIs DEF IsOff
    <3>3. CASE r \in repos /\ Same(job[w].msg)
      <4>1. /\ job[w].stage = "looked" /\ job[w].todo = {} /\ Recorded(job[w], members')
        BY <2>3 DEF Finish
      <4>2. Lone(w, p, b)
        BY <1>3, <2>3
      <4>3. job[w].held <=> <<p, b>> \in members
        BY <3>3, <4>2 DEF Lone
      <4>4. build[b] # Gone
        BY <1>0, <1>2, <4>1, <4>3 DEF Recorded, KeepInv, InDB
      <4>5. <<b, r>> \in content[p] <=> job[w].msg.change = "add"
        BY <1>9, <3>3, <4>1, <4>2, <4>4 DEF Lone
      <4>6. <<p, b>> \in members' <=> job[w].msg.change = "add"
        BY <1>0, <4>1, <4>3 DEF Recorded
      <4> QED
        BY <1>1, <4>5, <4>6 DEF Agrees
    <3> QED
      BY <3>2, <3>3
  <2>4. CASE job[w].alone /\ Lose(w)
    <3>1. members' = members /\ off' = IF job[w].changed THEN off \cup Pair(p, b, repos) ELSE off
      BY <1>0, <2>4 DEF Lose
    <3>2. CASE job[w].changed
      BY <2>1, <3>1, <3>2, PairIs DEF IsOff
    <3>3. CASE ~job[w].changed /\ IsOff(p, b, r)
      BY <3>1, <3>3 DEF IsOff
    <3>4. CASE ~job[w].changed /\ Same(job[w].msg)
      <4>1. IsOff(p, b, r) \/ Agrees(p, b, r)
        BY <1>3, <1>9, <2>4, <3>4 DEF Lone
      <4> QED
        BY <1>1, <3>1, <3>4, <4>1 DEF IsOff, Agrees
    <3> QED
      BY <2>1, <3>2, <3>3, <3>4
  <2> QED
    BY <2>2, <2>3, <2>4
<1>10. ASSUME NEW q \in Product, NEW c \in Build, product[q] # None, Doing(q, c)' = {},
              NEW r \in product[q].repos \cap ReposOf[c]
       PROVE  IsOff(q, c, r)' \/ Agrees(q, c, r)'
  <2>1. CASE q = p /\ c = b
    BY <1>9, <1>10, <2>1
  <2>2. CASE q # p \/ c # b
    <3>1. w \notin Doing(q, c)
      BY <1>0, <2>2, DoingIs
    <3>2. IsOff(q, c, r) \/ Agrees(q, c, r)
      BY <1>4, <1>10, <3>1, HoldsIs DEF HoldInv
    <3> QED
      BY <1>1, <1>5, <2>2, <3>2 DEF Agrees
  <2> QED
    BY <2>1, <2>2
<1>11. ProductHoldsItsBuilds'
  BY <1>1, <1>10 DEF ProductHoldsItsBuilds, IsOff, Agrees
<1> QED
  BY <1>8, <1>11

LEMMA HoldStep == TypeOK /\ KeepInv /\ HoldInv /\ [Next]_vars => HoldInv'
<1> SUFFICES ASSUME TypeOK, KeepInv, HoldInv, [Next]_vars PROVE HoldInv'
  OBVIOUS
<1>1. IdInv'
  BY IdStep DEF HoldInv
<1>2. ASSUME UNCHANGED <<product, members, content, off, job>>,
             \A b \in Build : build[b] = Gone => build'[b] = Gone,
             \A b \in Build : InDB(b) /\ build[b].built =>
                build'[b] = Gone \/ (InDB(b)' /\ build'[b].built)
      PROVE  HoldInv'
  BY <1>1, <1>2, HoldFrame DEF HoldInv
<1>3. CASE UNCHANGED <<product, members, content, off, job, build>>
  BY <1>2, <1>3 DEF InDB
<1>4. ASSUME NEW u \in User, NEW p \in Product, NEW b \in Build, CreateBuild(u, p, b)
      PROVE  HoldInv'
  <2>1. /\ UNCHANGED <<product, members, content, off, job>> /\ build[b] = New
        /\ \A c \in Build : c # b => build'[c] = build[c]
    BY <1>4 DEF CreateBuild, pulpVars, workVars, TypeOK
  <2> QED
    BY <1>2, <2>1, MarkersAssumption DEF InDB
<1>5. ASSUME NEW b \in Build, FinishBuild(b) \/ RemoveBuild(b) PROVE HoldInv'
  <2>1. /\ UNCHANGED <<product, members, content, off, job>>
        /\ build' = [build EXCEPT ![b].built = TRUE] \/ build' = [build EXCEPT ![b] = Gone]
        /\ InDB(b)
    BY <1>5 DEF FinishBuild, RemoveBuild, workVars
  <2>2. [build[b] EXCEPT !.built = TRUE] \in BuildRow /\ [build[b] EXCEPT !.built = TRUE].built
    BY <2>1 DEF InDB, TypeOK, BuildRow
  <2>3. /\ \A c \in Build : c # b => build'[c] = build[c]
        /\ build'[b] = Gone \/ (build'[b] \in BuildRow /\ build'[b].built)
    BY <2>1, <2>2 DEF TypeOK
  <2>4. build'[b] = Gone \/ (InDB(b)' /\ build'[b].built)
    BY <2>3, MarkersAssumption DEF InDB
  <2> QED
    BY <1>2, <2>1, <2>3, <2>4 DEF InDB
<1>6. ASSUME NEW u \in User, Left(u) PROVE HoldInv'
  <2>1. /\ UNCHANGED <<product, members, content, off, job>>
        /\ \A b \in Build : build'[b] = Gone \/ build'[b] = build[b]
    BY <1>6 DEF Left, pulpVars, workVars
  <2> QED
    BY <1>2, <2>1 DEF InDB
<1>7. ASSUME NEW w \in Worker,
             \/ \E m \in queue : Load(w, m)
             \/ Look(w) \/ Finish(w) \/ Lose(w)
             \/ \E r \in Repo : Modify(w, r)
      PROVE  HoldInv'
  BY <1>1, <1>7, LoadHolds, ModifyHolds, EndHolds DEF HoldInv
<1>8. CASE \/ \E p \in Product, repos \in SUBSET Repo \ {{}}, c \in BOOLEAN : CreateProduct(p, repos, c)
           \/ \E u \in User, p \in Product, repos \in SUBSET Repo \ {{}} : AddPlatform(u, p, repos)
           \/ \E p \in Product : EndRemoval(p)
  BY <1>1, <1>8, ProductHolds DEF HoldInv
<1>9. CASE \/ \E u \in User, p \in Product, b \in Build, c \in Change : ModifyProduct(u, p, b, c)
           \/ \E u \in User, p \in Product : BeginRemoval(u, p)
           \/ \E u \in User : AskToRemove(u) \/ Leave(u) \/ Stay(u)
           \/ \E u \in User, b \in Build : LeaveBuild(u, b)
           \/ ChangeTeam
           \/ UNCHANGED vars
  BY <1>3, <1>9
     DEF ModifyProduct, BeginRemoval, AskToRemove, Leave, Stay, LeaveBuild, ChangeTeam, vars,
         pulpVars, workVars
<1> QED
  BY <1>4, <1>5, <1>6, <1>7, <1>8, <1>9 DEF Next

\* A message is about the product that is there or an older one, a modification
\* that is alone knows what it changes, and one that is not leaves its
\* repositories open: what _perform_product_modification can rely on.
THEOREM ModificationsInvariant == Spec => [](KeepInv /\ HoldInv)
<1>1. Init => KeepInv /\ HoldInv
  BY DEF Init, KeepInv, RowTypes, InDB, Locked, HoldInv, IdInv, Sent, LoneInv, ApartInv,
         ProductHoldsItsBuilds
<1>2. TypeOK /\ KeepInv /\ HoldInv /\ [Next]_vars => KeepInv' /\ HoldInv'
  BY KeepStep, HoldStep
<1> QED
  BY ProductsTypeCorrect, <1>1, <1>2, PTL DEF Spec

\* Every repository of a product holds the packages of exactly the builds the
\* database lists, for any products, builds, workers and requests, but for what
\* interrupted, overlapped or early modifications and new platforms left open.
THEOREM ProductsHoldTheirBuilds == Spec => []ProductHoldsItsBuilds
<1>1. HoldInv => ProductHoldsItsBuilds
  BY DEF HoldInv
<1> QED
  BY ModificationsInvariant, <1>1, PTL

------------------------------------------------------------------------------
(* The plans of releases                                                   *)

Planned == [package : Package, repos : SUBSET PlatformRepo, force : BOOLEAN, from : Copies \cup {Nothing},
            arches : SUBSET (Arch \cup {I686, "x86_64"})]

\* All entries for a package agree on the copy that is released
Agreed(entries) ==
    /\ entries \subseteq Planned
    /\ \A e \in entries : e.from # Nothing => e.from.package = e.package
    /\ \A e, d \in entries : e.package = d.package => e.from = d.from

Stored == prod \in [PlatformRepo -> SUBSET Copies]
PlansAgree == \A r \in Release : plan[r] # Nothing => Agreed(plan[r])

\* Without edits every plan of a community product replaces a package wherever
\* production may have it
PlansCover == community /\ edited = {} =>
    /\ \A r \in Release : plan[r] # Nothing => plan[r] \in CommunityPlans
    /\ \A repo \in PlatformRepo : \A c \in prod[repo] : repo \in RepoFor(c.package)

PlanInv ==
    /\ community \in BOOLEAN /\ plan \in [Release -> {Nothing} \cup SUBSET Planned]
    /\ Stored /\ PlansAgree /\ PlansCover /\ OneCopy

------------------------------------------------------------------------------
(* Plans                                                                   *)

LEMMA SelectionsChoose ==
  ASSUME NEW possible, NEW f \in Selections(possible), NEW x \in DOMAIN possible
  PROVE  f[x] \in possible[x]
BY DEF Selections

LEMMA EntryPlanned ==
  ASSUME NEW p \in Package, NEW repos \in SUBSET PlatformRepo, NEW repo \in repos
  PROVE  /\ Entry(p, repos, repo) \in Planned
         /\ Entry(p, repos, repo).from = Nothing
<1> DEFINE archs == {other[2] : other \in {other \in repos : other[1] = repo[1]}}
<1>1. archs \subseteq Arch
  BY DEF Arch
<1>2. (IF p.arch = "noarch" THEN Arch
       ELSE IF p.arch = I686 /\ "x86_64" \in archs THEN archs \cup {I686} ELSE archs)
         \in SUBSET (Arch \cup {I686, "x86_64"})
  BY <1>1
<1> HIDE DEF archs
<1>3. Entry(p, repos, repo) =
         [package |-> p, repos |-> {repo}, force |-> FALSE, from |-> Nothing,
          arches |-> IF p.arch = "noarch" THEN Arch
                     ELSE IF p.arch = I686 /\ "x86_64" \in archs THEN archs \cup {I686} ELSE archs]
  BY DEF Entry, archs
<1>4. QED
  BY <1>2, <1>3 DEF Planned

\* A new plan says nothing of copies in production.
LEMMA PlansPlanned ==
  ASSUME NEW r \in Release, NEW cache, NEW entries \in Plans(r, cache)
  PROVE  entries \subseteq Planned /\ \A e \in entries : e.from = Nothing
<1> DEFINE possible == [p \in Package |-> EntriesFor(p, BuildOf[r], cache)]
<1>1. PICK choice \in Selections(possible) : entries = UNION Range(choice)
  BY DEF Plans
<1>2. DOMAIN choice = Package /\ \A p \in Package : choice[p] \in EntriesFor(p, BuildOf[r], cache)
  BY <1>1 DEF Selections
<1> SUFFICES ASSUME NEW e \in entries PROVE e \in Planned /\ e.from = Nothing
  OBVIOUS
<1>3. PICK p \in Package : e \in choice[p]
  BY <1>1, <1>2 DEF Range
<1>4. PICK f : choice[p] \in Entries(p, Known(p, f))
  BY <1>2 DEF EntriesFor
<1>5. Known(p, f) \subseteq PlatformRepo
  BY DEF Known
<1> DEFINE repos == Known(p, f)
           named == [name \in {repo[1] : repo \in repos} |-> {repo \in repos : repo[1] = name}]
<1>6. PICK chosen \in Selections(named) : choice[p] = {Entry(p, repos, repo) : repo \in Range(chosen)}
  BY <1>4 DEF Entries
<1>7. \A name \in DOMAIN chosen : chosen[name] \in repos
  BY <1>6 DEF Selections
<1>8. Range(chosen) \subseteq repos
  BY <1>7 DEF Range
<1>9. QED
  BY <1>3, <1>5, <1>6, <1>8, EntryPlanned

LEMMA CommunityPlanned ==
  ASSUME NEW entries \in CommunityPlans
  PROVE  /\ entries \subseteq Planned
         /\ \A e \in entries : e.from = Nothing /\ e.force = FALSE /\ e.repos = RepoFor(e.package)
         /\ \A p \in Package : \E e \in entries : e.package = p
<1>1. PICK multilib \in [Package -> {{}, {"x86_64"}}] :
         /\ \A p \in Package : (p.arch # "noarch" => RepoFor(p) # {})
         /\ entries = {[package |-> p, repos |-> RepoFor(p), force |-> FALSE, from |-> Nothing,
               arches |-> IF p.arch = "noarch" THEN Arch ELSE {p.arch} \cup multilib[p]] : p \in Package}
  BY DEF CommunityPlans
<1>2. ASSUME NEW p \in Package
      PROVE  [package |-> p, repos |-> RepoFor(p), force |-> FALSE, from |-> Nothing,
               arches |-> IF p.arch = "noarch" THEN Arch ELSE {p.arch} \cup multilib[p]] \in Planned
  <2>1. RepoFor(p) \subseteq PlatformRepo
    BY PlanAssumption DEF RepoFor
  <2>2. p.arch # "noarch" => p.arch \in Arch
    BY <1>1, PlanAssumption DEF RepoFor, Arch
  <2>3. multilib[p] \subseteq {"x86_64"}
    OBVIOUS
  <2>4. (IF p.arch = "noarch" THEN Arch ELSE {p.arch} \cup multilib[p])
           \in SUBSET (Arch \cup {I686, "x86_64"})
    BY <2>2, <2>3
  <2>5. QED
    BY <2>1, <2>4 DEF Planned
<1> DEFINE one(p) ==
        [package |-> p, repos |-> RepoFor(p), force |-> FALSE, from |-> Nothing,
         arches |-> IF p.arch = "noarch" THEN Arch ELSE {p.arch} \cup multilib[p]]
<1>3. \A p : /\ one(p).from = Nothing /\ one(p).force = FALSE /\ one(p).repos = RepoFor(p)
             /\ one(p).package = p
  OBVIOUS
<1>4. entries = {one(p) : p \in Package} /\ \A p \in Package : one(p) \in Planned
  BY <1>1, <1>2
<1> HIDE DEF one
<1>5. QED
  BY <1>3, <1>4

\* What production has of a package is one of its copies, and not for i686 only.
LEMMA PresentCopies ==
  ASSUME Stored, NEW p, NEW c \in Present(p)
  PROVE  /\ c \in CopiesOf(p, {repo \in PlatformRepo : repo[2] # I686})
         /\ c \in Copies /\ c.package = p /\ c # Nothing
<1>1. c \in CopiesOf(p, {repo \in PlatformRepo : repo[2] # I686})
  BY DEF Present, CopiesOf
<1>2. QED
  BY <1>1, PlanAssumption DEF CopiesOf, Stored

\* After the check the entries of a package name one copy of it, the one that
\* production has if it has any.
LEMMA CheckedAgree ==
  ASSUME Stored, NEW entries, Agreed(entries), NEW checked \in Checked(entries)
  PROVE  /\ Agreed(checked)
         /\ \A e \in checked : Present(e.package) # {} => e.from \in Present(e.package)
<1> DEFINE possible == [p \in Package |-> IF Present(p) = {} THEN {Nothing} ELSE Present(p)]
<1>1. PICK found \in Selections(possible) :
         checked = {[e EXCEPT !.from = IF found[e.package] = Nothing THEN @ ELSE found[e.package]] :
                       e \in entries}
  BY DEF Checked
<1>2. \A p \in Package : found[p] \in (IF Present(p) = {} THEN {Nothing} ELSE Present(p))
  BY <1>1, SelectionsChoose
<1>3. \A p \in Package : found[p] # Nothing => found[p] \in Copies /\ found[p].package = p
  BY <1>2, PresentCopies
<1>4. ASSUME NEW e \in checked
      PROVE  \E old \in entries :
                /\ e.package = old.package /\ e.package \in Package
                /\ e.from = IF found[old.package] = Nothing THEN old.from ELSE found[old.package]
                /\ e \in Planned
  <2>1. PICK old \in entries :
           e = [old EXCEPT !.from = IF found[old.package] = Nothing THEN old.from
                                    ELSE found[old.package]]
    BY <1>1
  <2>2. old \in Planned /\ old.package \in Package
    BY DEF Agreed, Planned
  <2>3. (IF found[old.package] = Nothing THEN old.from ELSE found[old.package]) \in Copies \cup {Nothing}
    BY <1>3, <2>2 DEF Planned
  <2>4. QED
    BY <2>1, <2>2, <2>3 DEF Planned
<1>5. checked \subseteq Planned
  BY <1>4
<1>6. \A e \in checked : e.from # Nothing => e.from.package = e.package
  BY <1>3, <1>4 DEF Agreed
<1>7. \A e, d \in checked : e.package = d.package => e.from = d.from
  BY <1>4 DEF Agreed
<1>8. \A e \in checked : Present(e.package) # {} => e.from \in Present(e.package)
  BY <1>2, <1>4, PresentCopies
<1>9. QED
  BY <1>5, <1>6, <1>7, <1>8 DEF Agreed

------------------------------------------------------------------------------
(* Production                                                              *)

Served == {repo \in PlatformRepo : repo[2] # I686}

\* A community plan needs no check, any other is checked against production.
LEMMA UpdatedAgree ==
  ASSUME Stored, community \in BOOLEAN, NEW entries, Agreed(entries),
         NEW checked \in Updated(entries)
  PROVE  /\ Agreed(checked)
         /\ community => checked = entries
         /\ ~community => \A e \in checked :
               Present(e.package) # {} => e.from \in Present(e.package)
BY CheckedAgree DEF Updated

LEMMA PlanKeeps ==
  ASSUME PlanInv, NEW r \in Release, Plan(r)
  PROVE  PlanInv'
<1>0. PICK entries \in (IF community THEN CommunityPlans ELSE Plans(r, Cache(lines))) :
         \E checked \in Updated(entries) : plan' = [plan EXCEPT ![r] = checked]
  BY DEF Plan
<1>1. PICK checked \in Updated(entries) : plan' = [plan EXCEPT ![r] = checked]
  BY <1>0
<1>2. Agreed(entries)
  <2>1. entries \subseteq Planned /\ \A e \in entries : e.from = Nothing
    BY PlansPlanned, CommunityPlanned
  <2>2. QED
    BY <2>1 DEF Agreed
<1>3. Agreed(checked) /\ (community => checked = entries)
  BY <1>2, UpdatedAgree DEF PlanInv
<1>4. UNCHANGED <<community, prod, edited, forced>>
  BY DEF Plan
<1>5. plan' \in [Release -> {Nothing} \cup SUBSET Planned] /\ PlansAgree'
  BY <1>1, <1>3 DEF PlanInv, PlansAgree, Agreed
<1>6. PlansCover'
  BY <1>1, <1>3, <1>4 DEF PlanInv, PlansCover
<1>7. QED
  BY <1>4, <1>5, <1>6 DEF PlanInv, Stored, OneCopy, CopiesOf

LEMMA BooleanMember ==
  ASSUME NEW x, NEW S
  PROVE  (x \in S) \in BOOLEAN
OBVIOUS

LEMMA EditKeeps ==
  ASSUME PlanInv, NEW r \in Release, Edit(r)
  PROVE  PlanInv'
<1>1. PICK force \in SUBSET Package, all \in SUBSET Package :
         LET sent == {[e EXCEPT !.force = e.package \in force,
                                !.repos = IF e.package \in all
                                          THEN {repo \in PlatformRepo : /\ \E own \in e.repos : own[1] = repo[1]
                                                                /\ repo[2] \in e.arches}
                                          ELSE e.repos] : e \in plan[r]}
         IN \E checked \in Updated(sent) : plan' = [plan EXCEPT ![r] = checked]
  BY DEF Edit
<1> DEFINE allowed(e) == IF e.package \in all
                         THEN {repo \in PlatformRepo : /\ \E own \in e.repos : own[1] = repo[1]
                                               /\ repo[2] \in e.arches}
                         ELSE e.repos
           sent == {[e EXCEPT !.force = e.package \in force, !.repos = allowed(e)] : e \in plan[r]}
<1>2. PICK checked \in Updated(sent) : plan' = [plan EXCEPT ![r] = checked]
  BY <1>1
<1>3. Agreed(plan[r])
  BY DEF Edit, PlanInv, PlansAgree
<1>4. Agreed(sent)
  <2>1. ASSUME NEW e \in plan[r]
        PROVE  LET new == [e EXCEPT !.force = e.package \in force, !.repos = allowed(e)] IN
               new \in Planned /\ new.package = e.package /\ new.from = e.from
    <3>1. e \in Planned
      BY <1>3 DEF Agreed
    <3>2. e.repos \in SUBSET PlatformRepo
      BY <3>1 DEF Planned
    <3>3. {repo \in PlatformRepo : (\E own \in e.repos : own[1] = repo[1]) /\ repo[2] \in e.arches}
              \in SUBSET PlatformRepo
      OBVIOUS
    <3>4. allowed(e) \in SUBSET PlatformRepo
      BY <3>2, <3>3
    <3> HIDE DEF allowed
    <3>5. (e.package \in force) \in BOOLEAN
      BY BooleanMember
    <3>6. QED
      BY <3>1, <3>4, <3>5 DEF Planned
  <2>2. \A new \in sent : \E e \in plan[r] :
           new \in Planned /\ new.package = e.package /\ new.from = e.from
    BY <2>1
  <2> HIDE DEF sent
  <2>3. QED
    BY <1>3, <2>2 DEF Agreed
<1>5. Agreed(checked)
  BY <1>2, <1>4, UpdatedAgree DEF PlanInv
<1>6. UNCHANGED <<community, prod, forced>> /\ edited' = edited \cup {r}
  BY DEF Edit
<1>7. plan' \in [Release -> {Nothing} \cup SUBSET Planned] /\ PlansAgree'
  BY <1>2, <1>5 DEF PlanInv, PlansAgree, Agreed
<1>8. PlansCover'
  BY <1>6 DEF PlansCover
<1>9. OneCopy'
  <2>1. \/ community /\ edited # {}
        \/ \A p \in Package \ forced :
              \A c, d \in CopiesOf(p, {repo \in PlatformRepo : repo[2] # I686}) : c = d
    BY DEF PlanInv, OneCopy
  <2>2. CASE community /\ edited # {}
    <3>1. community' /\ edited' # {}
      BY <1>6, <2>2
    <3>2. QED
      BY <3>1 DEF OneCopy
  <2>3. CASE \A p \in Package \ forced :
                \A c, d \in CopiesOf(p, {repo \in PlatformRepo : repo[2] # I686}) : c = d
    <3>1. prod' = prod /\ forced' = forced
      BY <1>6
    <3> SUFFICES ASSUME NEW p \in Package \ forced',
                        NEW c \in CopiesOf(p, {repo \in PlatformRepo : repo[2] # I686})',
                        NEW d \in CopiesOf(p, {repo \in PlatformRepo : repo[2] # I686})'
                 PROVE  c = d
      BY DEF OneCopy
    <3>2. /\ c \in CopiesOf(p, {repo \in PlatformRepo : repo[2] # I686})
          /\ d \in CopiesOf(p, {repo \in PlatformRepo : repo[2] # I686})
      BY <3>1 DEF CopiesOf
    <3>3. QED
      BY <2>3, <3>1, <3>2
  <2>4. QED
    BY <2>1, <2>2, <2>3
<1>10. QED
  BY <1>6, <1>7, <1>8, <1>9 DEF PlanInv, Stored

\* What a release puts into a repository is a copy of the entry's package.
LEMMA ReleasedCopy ==
  ASSUME NEW r \in Release, NEW entries, Agreed(entries), NEW e \in entries
  PROVE  Released(r, e) \in Copies /\ Released(r, e).package = e.package
<1>1. e \in Planned /\ (e.from # Nothing => e.from.package = e.package)
  BY DEF Agreed
<1>2. Copy(BuildOf[r], e.package) \in Copies /\ Copy(BuildOf[r], e.package).package = e.package
  BY <1>1, PlanAssumption DEF Copy, Copies, Planned
<1>3. e.from # Nothing => e.from \in Copies
  BY <1>1 DEF Planned
<1>4. QED
  BY <1>1, <1>2, <1>3 DEF Released

\* Where a copy in production comes from after a release.
LEMMA ExecuteHolds ==
  ASSUME NEW r \in Release, NEW entries, Agreed(entries), Execute(r, entries),
         NEW repo \in PlatformRepo, NEW c \in prod'[repo]
  PROVE  \/ /\ c \in prod[repo]
            /\ \A e \in entries : repo \in Targets(e) => e.package # c.package
         \/ \E e \in entries :
               repo \in Targets(e) /\ c = Released(r, e) /\ c.package = e.package
<1> DEFINE new == {Released(r, e) : e \in {e \in entries : repo \in Targets(e)}}
<1>1. c \in Put(prod[repo], new)
  BY DEF Execute
<1>2. \A e \in entries : Released(r, e).package = e.package
  BY ReleasedCopy
<1>3. QED
  BY <1>1, <1>2 DEF Put

LEMMA ExecuteKeeps ==
  ASSUME PlanInv, NEW r \in Release, plan[r] # Nothing, NEW entries \in Updated(plan[r]),
         Execute(r, entries), UNCHANGED <<community, edited>>
  PROVE  Stored' /\ OneCopy'
<1>1. /\ Agreed(entries)
      /\ community => entries = plan[r]
      /\ ~community => \A e \in entries :
            Present(e.package) # {} => e.from \in Present(e.package)
  <2>1. Agreed(plan[r])
    BY DEF PlanInv, PlansAgree
  <2>2. QED
    BY <2>1, UpdatedAgree DEF PlanInv
<1>2. Stored'
  <2>1. \A repo \in PlatformRepo : prod'[repo] \subseteq Copies
    <3> SUFFICES ASSUME NEW repo \in PlatformRepo, NEW c \in prod'[repo] PROVE c \in Copies
      OBVIOUS
    <3>1. c \in prod[repo] \/ \E e \in entries : c = Released(r, e)
      BY <1>1, ExecuteHolds
    <3>2. QED
      BY <1>1, <3>1, ReleasedCopy DEF PlanInv, Stored
  <2>2. QED
    BY <2>1 DEF Execute, Stored
<1>3. OneCopy'
  <2> SUFFICES ASSUME ~(community /\ edited # {}), NEW p \in Package \ forced',
                      NEW repo \in Served, NEW c \in prod'[repo], c.package = p,
                      NEW other \in Served, NEW d \in prod'[other], d.package = p
               PROVE  c = d
    BY DEF OneCopy, CopiesOf, Served
  <2>1. p \notin forced /\ \A e \in entries : e.package = p => ~e.force
    BY DEF Execute
  <2>2. \A one \in Served, two \in Served : \A x \in prod[one], y \in prod[two] :
           x.package = p /\ y.package = p => x = y
    BY <2>1 DEF PlanInv, OneCopy, CopiesOf, Served
  <2>3. \A one \in Served : \A x \in prod'[one] :
           x \in prod[one] \/ \E e \in entries : x = Released(r, e) /\ x.package = e.package
    BY <1>1, ExecuteHolds DEF Served
  <2>4. ASSUME ~community PROVE c = d
    <3>1. CASE Present(p) # {}
      <4>1. \A e \in entries : e.package = p =>
               /\ Released(r, e) \in CopiesOf(p, Served) /\ Released(r, e).package = p
        <5> SUFFICES ASSUME NEW e \in entries, e.package = p
                     PROVE  Released(r, e) \in CopiesOf(p, Served) /\ Released(r, e).package = p
          OBVIOUS
        <5>1. e.from \in Present(p)
          BY <1>1, <2>4, <3>1
        <5>2. /\ e.from \in CopiesOf(p, Served)
              /\ e.from.package = p /\ e.from # Nothing
          BY <5>1, PresentCopies DEF PlanInv, Served
        <5>3. Released(r, e) = e.from
          BY <2>1, <5>2 DEF Released
        <5>4. QED
          BY <5>2, <5>3
      <4>2. \A one \in Served : \A x \in prod'[one] :
               x.package = p => \E home \in Served : x \in prod[home]
        BY <2>3, <4>1 DEF CopiesOf
      <4>3. QED
        BY <2>2, <4>2
    <3>2. CASE Present(p) = {}
      <4>1. CopiesOf(p, Served) = {}
        BY <3>2 DEF Present, Served
      <4>2. \A one \in Served : \A x \in prod'[one] :
               x.package = p => \E e \in entries : e.package = p /\ x = Released(r, e)
        BY <2>3, <4>1 DEF CopiesOf
      <4>3. \A e, f \in entries : e.package = p /\ f.package = p => Released(r, e) = Released(r, f)
        BY <1>1, <2>1 DEF Released, Agreed
      <4>4. QED
        BY <4>2, <4>3
    <3>3. QED
      BY <3>1, <3>2
  <2>5. ASSUME community PROVE c = d
    <3>1. entries \in CommunityPlans /\ edited = {}
      BY <1>1, <2>5 DEF PlanInv, PlansCover
    <3>2. PICK own \in entries : own.package = p
      BY <3>1, CommunityPlanned
    <3>3. own.repos = RepoFor(p) /\ Targets(own) = RepoFor(p)
      <4>1. own.repos = RepoFor(p)
        BY <3>1, <3>2, CommunityPlanned
      <4>2. \A place : place \in Targets(own) <=> place \in own.repos
        BY <2>5 DEF Targets
      <4>3. QED
        BY <4>1, <4>2
    <3>4. \A one \in Served : \A x \in prod'[one] :
             x.package = p => x = Copy(BuildOf[r], p)
      <4> SUFFICES ASSUME NEW one \in Served, NEW x \in prod'[one], x.package = p
                   PROVE  x = Copy(BuildOf[r], p)
        OBVIOUS
      <4>1. ~(x \in prod[one] /\ \A e \in entries : one \in Targets(e) => e.package # p)
        <5>1. ASSUME x \in prod[one] PROVE one \in Targets(own)
          BY <2>5, <3>1, <3>3, <5>1 DEF PlanInv, PlansCover, Served
        <5>2. QED
          BY <3>2, <5>1
      <4>2. PICK e \in entries : x = Released(r, e) /\ x.package = e.package
        BY <1>1, <4>1, ExecuteHolds DEF Served
      <4>3. e.from = Nothing
        BY <3>1, CommunityPlanned
      <4>4. QED
        BY <4>2, <4>3 DEF Released
    <3>5. QED
      BY <3>4
  <2>6. QED
    BY <2>4, <2>5
<1>4. QED
  BY <1>2, <1>3

\* Production of a community product stays where its plans replace it.
LEMMA ExecuteCovers ==
  ASSUME PlanInv, NEW r \in Release, plan[r] # Nothing, NEW entries \in Updated(plan[r]),
         Execute(r, entries), community, edited = {}
  PROVE  \A repo \in PlatformRepo : \A c \in prod'[repo] : repo \in RepoFor(c.package)
<1>1. Agreed(plan[r]) /\ plan[r] \in CommunityPlans
  BY DEF PlanInv, PlansAgree, PlansCover
<1>2. Agreed(entries) /\ entries \in CommunityPlans
  BY <1>1, UpdatedAgree DEF PlanInv
<1> SUFFICES ASSUME NEW repo \in PlatformRepo, NEW c \in prod'[repo] PROVE repo \in RepoFor(c.package)
  OBVIOUS
<1>3. CASE c \in prod[repo]
  BY <1>3 DEF PlanInv, PlansCover
<1>4. CASE \E e \in entries : repo \in Targets(e) /\ c.package = e.package
  <2>1. PICK e \in entries : repo \in Targets(e) /\ c.package = e.package
    BY <1>4
  <2>2. e.repos = RepoFor(e.package)
    BY <1>2, CommunityPlanned
  <2>3. QED
    BY <2>1, <2>2 DEF Targets
<1>5. QED
  BY <1>2, <1>3, <1>4, ExecuteHolds

LEMMA CommitKeeps ==
  ASSUME PlanInv, NEW r \in Release, Commit(r)
  PROVE  PlanInv'
<1>1. PICK entries \in Updated(plan[r]) :
         /\ IF \E e \in entries : Refused(e) THEN Refuse(r, entries) ELSE Execute(r, entries)
         /\ plan' = IF log' = log THEN plan ELSE [plan EXCEPT ![r] = entries]
  BY DEF Commit
<1>2. plan[r] # Nothing /\ UNCHANGED <<community, edited>>
  BY DEF Commit
<1>3. Agreed(entries) /\ (community => entries = plan[r])
  BY <1>2, UpdatedAgree DEF PlanInv, PlansAgree
<1>4. plan' \in [Release -> {Nothing} \cup SUBSET Planned] /\ PlansAgree'
  BY <1>1, <1>3 DEF PlanInv, PlansAgree, Agreed
<1>5. community => \A q \in Release : plan'[q] = plan[q]
  BY <1>1, <1>3 DEF PlanInv
<1>6. CASE Execute(r, entries)
  <2>1. Stored' /\ OneCopy'
    BY <1>2, <1>6, ExecuteKeeps
  <2>2. PlansCover'
    <3> SUFFICES ASSUME community', edited' = {}
                 PROVE  /\ \A q \in Release : plan'[q] # Nothing => plan'[q] \in CommunityPlans
                        /\ \A repo \in PlatformRepo : \A c \in prod'[repo] : repo \in RepoFor(c.package)
      BY DEF PlansCover
    <3>1. community /\ edited = {}
      BY <1>2
    <3>2. \A repo \in PlatformRepo : \A c \in prod'[repo] : repo \in RepoFor(c.package)
      BY <1>2, <1>6, <3>1, ExecuteCovers
    <3>3. \A q \in Release : plan[q] # Nothing => plan[q] \in CommunityPlans
      BY <3>1 DEF PlanInv, PlansCover
    <3>4. QED
      BY <1>5, <3>1, <3>2, <3>3
  <2>3. QED
    BY <1>2, <1>4, <2>1, <2>2 DEF PlanInv
<1>7. CASE Refuse(r, entries)
  <2>1. UNCHANGED <<prod, forced>>
    BY <1>7 DEF Refuse
  <2>2. PlansCover'
    BY <1>2, <1>5, <2>1 DEF PlanInv, PlansCover
  <2>3. QED
    BY <1>2, <1>4, <2>1, <2>2 DEF PlanInv, Stored, OneCopy, CopiesOf
<1>8. QED
  BY <1>1, <1>6, <1>7

LEMMA RevertKeeps ==
  ASSUME PlanInv, NEW r \in Release, Revert(r)
  PROVE  PlanInv'
<1>1. UNCHANGED <<community, plan, forced, edited>>
  BY DEF Revert
<1>2. /\ DOMAIN prod' = PlatformRepo /\ prod' = [repo \in PlatformRepo |-> prod'[repo]]
      /\ \A repo \in PlatformRepo : prod'[repo] \subseteq prod[repo]
  BY DEF Revert
<1>3. Stored'
  BY <1>2 DEF PlanInv, Stored
<1>4. OneCopy'
  <2> SUFFICES ASSUME ~(community /\ edited # {}), NEW p \in Package \ forced,
                      NEW repo \in Served, NEW c \in prod'[repo], c.package = p,
                      NEW other \in Served, NEW d \in prod'[other], d.package = p
               PROVE  c = d
    BY <1>1 DEF OneCopy, CopiesOf, Served
  <2>1. c \in prod[repo] /\ d \in prod[other]
    BY <1>2 DEF Served
  <2>2. QED
    BY <2>1 DEF PlanInv, OneCopy, CopiesOf, Served
<1>5. PlansCover'
  BY <1>1, <1>2 DEF PlanInv, PlansCover
<1>6. QED
  BY <1>1, <1>3, <1>4, <1>5 DEF PlanInv, PlansAgree

\* Entries of a plan name copies of their own package, and all entries of a package
\* the same one; what a release of a community product put somewhere is where the
\* next one replaces it (check_packages_presence_in_prod_repositories,
\* CommunityReleasePlanner.get_release_plan).
THEOREM PlansInvariant == PlanSpec => []PlanInv
<1>1. PlanInit => PlanInv
  <2> SUFFICES ASSUME PlanInit PROVE PlanInv
    OBVIOUS
  <2>1. /\ community \in BOOLEAN /\ edited = {}
        /\ plan = [r \in Release |-> Nothing]
        /\ community => prod = [repo \in PlatformRepo |-> {}]
        /\ ~community => prod \in Production
    BY DEF PlanInit
  <2>2. Stored
    BY <2>1, PlanAssumption DEF Stored
  <2>3. PlansAgree /\ PlansCover
    BY <2>1 DEF PlansAgree, PlansCover
  <2>4. OneCopy
    BY <2>1, PlanAssumption DEF OneCopy, CopiesOf
  <2>5. QED
    BY <2>1, <2>2, <2>3, <2>4 DEF PlanInv
<1>2. PlanInv /\ [PlanNext]_planVars => PlanInv'
  <2> SUFFICES ASSUME PlanInv, [PlanNext]_planVars PROVE PlanInv'
    OBVIOUS
  <2>1. CASE PlanNext
    BY <2>1, PlanKeeps, EditKeeps, CommitKeeps, RevertKeeps DEF PlanNext
  <2>2. CASE UNCHANGED planVars
    BY <2>2 DEF planVars, PlanInv, Stored, PlansAgree, PlansCover, OneCopy, CopiesOf
  <2>3. QED
    BY <2>1, <2>2
<1>3. QED
  BY <1>1, <1>2, PTL DEF PlanSpec

\* However often a package is built again, planned, released and reverted, all
\* repositories of production but those for i686 have the same copy of it, unless
\* it was released by force or a plan of a community product was edited
\* (execute_release_plan, remove_packages_from_repositories).
THEOREM ProductionHasOneCopy == PlanSpec => []OneCopy
<1>1. PlanInv => OneCopy
  BY DEF PlanInv
<1>2. QED
  BY PlansInvariant, <1>1, PTL

------------------------------------------------------------------------------
(* What beholder answers                                                   *)

\* What a line says of its own architecture is known.
Kept(cache, l) ==
    LET k == Key(l, l.arch) IN
    k \in DOMAIN cache /\ l.repos \subseteq cache[k].repos /\ cache[k].priority = l.priority

\* What a line says is known next, with what was known before,
LEMMA LineIsKnown ==
  ASSUME NEW cache, NEW l, l.arch \notin WeakOf[l.arch], l.repos # {}
  PROVE  /\ Key(l, l.arch) \in DOMAIN UpdateCache(cache, l)
         /\ UpdateCache(cache, l)[Key(l, l.arch)] =
               [repos |-> l.repos \cup Repos(cache, Key(l, l.arch)), priority |-> l.priority]
<1> DEFINE own == Key(l, l.arch)
           weak == {w \in WeakOf[l.arch] : ~KeepsMultilib(cache, l, w)}
<1>1. own \notin {Key(l, w) : w \in weak} /\ own \in {Key(l, a) : a \in weak \cup {l.arch}}
  BY DEF Key
<1>2. QED
  BY <1>1 DEF UpdateCache

\* and changes nothing else but for the architectures that depend on it.
LEMMA OthersAreKept ==
  ASSUME NEW cache, NEW l, NEW k \in DOMAIN cache, k # Key(l, l.arch),
         \A w \in WeakOf[l.arch] : k = Key(l, w) => KeepsMultilib(cache, l, w)
  PROVE  k \in DOMAIN UpdateCache(cache, l) /\ UpdateCache(cache, l)[k] = cache[k]
<1> DEFINE weak == {w \in WeakOf[l.arch] : ~KeepsMultilib(cache, l, w)}
<1>1. k \notin {Key(l, w) : w \in weak}
  OBVIOUS
<1>2. QED
  BY <1>1 DEF UpdateCache

\* The last line of the best of an architecture stays known.
LEMMA LaterLineKeeps ==
  ASSUME NEW cache, NEW l, NEW m, Kept(cache, l), l.repos # {},
         m.arch \in DOMAIN WeakOf, \A a \in DOMAIN WeakOf : a \notin WeakOf[a],
         l.arch \in Weak => l.arch = I686,
         Key(m, l.arch) = Key(l, l.arch) /\ l.arch \in {m.arch} \cup WeakOf[m.arch] =>
             /\ m.priority = l.priority /\ m.priority >= l.priority
             /\ m.arch = l.arch => m.repos # {}
  PROVE  Kept(UpdateCache(cache, m), l)
<1> DEFINE k == Key(l, l.arch)
<1>1. CASE k = Key(m, m.arch)
  <2>1. m.arch = l.arch
    BY <1>1 DEF Key
  <2>2. m.repos # {} /\ m.priority = l.priority /\ m.arch \notin WeakOf[m.arch]
    BY <1>1, <2>1
  <2>3. /\ k \in DOMAIN UpdateCache(cache, m)
        /\ UpdateCache(cache, m)[k] = [repos |-> m.repos \cup Repos(cache, k), priority |-> m.priority]
    BY <1>1, <2>2, LineIsKnown
  <2>4. l.repos \subseteq Repos(cache, k)
    BY DEF Kept, Repos
  <2>5. QED
    BY <2>2, <2>3, <2>4 DEF Kept
<1>2. CASE k # Key(m, m.arch)
  <2>1. ASSUME NEW w \in WeakOf[m.arch], k = Key(m, w) PROVE KeepsMultilib(cache, m, w)
    <3>1. w = l.arch
      BY <2>1 DEF Key
    <3>2. w = I686
      BY <3>1 DEF Weak
    <3>3. m.priority >= l.priority
      BY <2>1, <3>1
    <3>4. Repos(cache, Key(m, w)) # {} /\ cache[Key(m, w)].priority = l.priority
      BY <2>1 DEF Kept, Repos
    <3>5. QED
      BY <3>2, <3>3, <3>4 DEF KeepsMultilib
  <2>2. k \in DOMAIN cache
    BY DEF Kept
  <2>3. k \in DOMAIN UpdateCache(cache, m) /\ UpdateCache(cache, m)[k] = cache[k]
    <3> HIDE DEF k
    <3>1. QED
      BY <1>2, <2>1, <2>2, OthersAreKept DEF k
  <2>4. QED
    BY <2>3 DEF Kept
<1>3. QED
  BY <1>1, <1>2

LEMMA LessThanRelation == OpToRel(<, Nat) = {ss \in Nat \X Nat : ss[1] < ss[2]}
BY SMT DEF OpToRel

\* "Less than" is well founded, as a relation the provers can use.
LEMMA Less == \E R : /\ IsWellFoundedOn(R, Nat)
                    /\ \A m, n \in Nat : <<n, m>> \in R <=> n < m
<1> DEFINE R == {ss \in Nat \X Nat : ss[1] < ss[2]}
<1>1. IsWellFoundedOn(R, Nat)
  BY NatLessThanWellFounded, LessThanRelation
<1>2. \A m, n \in Nat : <<n, m>> \in R <=> n < m
  OBVIOUS
<1>3. QED
  BY <1>1, <1>2

\* Every set of naturals that is not empty has a least element.
LEMMA Smallest ==
    ASSUME NEW S, S \subseteq Nat, S # {}
    PROVE  \E m \in S : \A n \in S : m <= n
<1>1. PICK R : /\ IsWellFoundedOn(R, Nat)
               /\ \A m, n \in Nat : <<n, m>> \in R <=> n < m
  BY Less
<1>2. PICK m \in S : \A n \in S : ~ (<<n, m>> \in R)
  BY <1>1, WFMin, Zenon
<1>3. ASSUME NEW n \in S PROVE m <= n
  <2>1. m \in Nat /\ n \in Nat
    OBVIOUS
  <2>2. ~ (n < m)
    BY <1>1, <1>2, <2>1
  <2>3. QED
    BY <2>1, <2>2
<1>4. QED
  BY <1>3

\* Steps from 0 to n.
LEMMA UpTo ==
    ASSUME NEW n \in Nat, NEW S, 0 \in S, \A i \in 1..n : i - 1 \in S => i \in S
    PROVE  \A i \in 0..n : i \in S
<1> DEFINE B == {i \in 0..n : i \notin S}
<1>1. SUFFICES ASSUME B # {} PROVE FALSE
  OBVIOUS
<1>2. PICK m \in B : \A i \in B : m <= i
  <2>1. B \subseteq Nat
    OBVIOUS
  <2> HIDE DEF B
  <2>2. QED
    BY <1>1, <2>1, Smallest
<1>3. m # 0 /\ m \in 1..n
  BY <1>2
<1>4. m - 1 \in 0..n /\ m - 1 \notin B
  BY <1>2, <1>3
<1>5. QED
  BY <1>3, <1>4, <1>2

LEMMA Maximum ==
    ASSUME NEW n \in Nat, NEW t \in SUBSET (1..n), t # {}
    PROVE  Max(t) \in t /\ \A x \in t : x <= Max(t)
<1> DEFINE S == {n - x : x \in t}
<1>0. \A x \in t : x \in Nat /\ n - x \in Nat
  OBVIOUS
<1>1. S \subseteq Nat /\ S # {}
  BY <1>0
<1>2. PICK m \in S : \A k \in S : m <= k
  <2> HIDE DEF S
  <2>1. QED
    BY <1>1, Smallest
<1>3. PICK x \in t : m = n - x
  BY <1>2
<1>4. ASSUME NEW y \in t PROVE x >= y
  <2>1. n - x <= n - y
    BY <1>2, <1>3
  <2>2. QED
    BY <1>0, <2>1
<1>5. \E z \in t : \A y \in t : z >= y
  BY <1>4
<1>6. Max(t) \in t /\ \A y \in t : Max(t) >= y
  BY <1>5 DEF Max
<1>7. QED
  BY <1>6

\* The function by which the library defines the fold of the answers, which exists.
IsFold(s, n, g) ==
    g = [t \in SUBSET (1..n) |->
           IF t = {} THEN NoCache ELSE UpdateCache(g[t \ {Max(t)}], s[Max(t)])]
LEMMA FoldExists ==
    ASSUME NEW s, NEW n \in Nat
    PROVE  \E g : IsFold(s, n, g)
<1> DEFINE Is(m, g) == g = [t \in SUBSET (1..m) |->
              IF t = {} THEN NoCache ELSE UpdateCache(g[t \ {Max(t)}], s[Max(t)])]
           S == {m \in 0..n : \E g : Is(m, g)}
<1>1. 0 \in S
  <2>1. Is(0, [t \in SUBSET (1..0) |-> NoCache])
    <3> DEFINE g == [t \in SUBSET (1..0) |-> NoCache]
    <3>1. \A t \in SUBSET (1..0) : t = {}
      OBVIOUS
    <3>2. g = [t \in SUBSET (1..0) |->
                 IF t = {} THEN NoCache ELSE UpdateCache(g[t \ {Max(t)}], s[Max(t)])]
      BY <3>1
    <3>3. QED
      BY <3>2
  <2>2. QED
    BY <2>1
<1>2. ASSUME NEW m \in 1..n, m - 1 \in S PROVE m \in S
  <2>1. PICK g : Is(m - 1, g)
    BY <1>2
  <2> DEFINE h == [t \in SUBSET (1..m) |->
                      IF m \in t THEN UpdateCache(g[t \ {m}], s[m]) ELSE g[t]]
  <2>2. \A t \in SUBSET (1..m) : m \notin t => t \in SUBSET (1..(m - 1))
    OBVIOUS
  <2>3. ASSUME NEW t \in SUBSET (1..m)
        PROVE  h[t] = IF t = {} THEN NoCache ELSE UpdateCache(h[t \ {Max(t)}], s[Max(t)])
    <3>1. CASE m \in t
      <4>1. Max(t) = m
        <5>1. m \in Nat /\ t \in SUBSET (1..m) /\ t # {}
          BY <3>1
        <5>2. Max(t) \in t /\ \A x \in t : x <= Max(t)
          BY <5>1, Maximum
        <5>3. Max(t) \in 1..m /\ m <= Max(t)
          BY <3>1, <5>2
        <5>4. QED
          BY <5>3
      <4>2. h[t \ {m}] = g[t \ {m}]
        OBVIOUS
      <4>3. h[t] = UpdateCache(g[t \ {m}], s[m])
        BY <3>1
      <4>4. t # {}
        BY <3>1
      <4> HIDE DEF h
      <4>5. QED
        BY <4>1, <4>2, <4>3, <4>4
    <3>2. CASE m \notin t
      <4>1. t \in SUBSET (1..(m - 1)) /\ h[t] = g[t]
        BY <2>2, <3>2
      <4>2. g[t] = IF t = {} THEN NoCache ELSE UpdateCache(g[t \ {Max(t)}], s[Max(t)])
        BY <2>1, <4>1
      <4>3. h[t \ {Max(t)}] = g[t \ {Max(t)}]
        BY <3>2
      <4> HIDE DEF h
      <4>4. QED
        BY <4>1, <4>2, <4>3
    <3>3. QED
      BY <3>1, <3>2
  <2>4. h = [t \in SUBSET (1..m) |-> h[t]]
    OBVIOUS
  <2> HIDE DEF h
  <2>5. Is(m, h)
    BY <2>3, <2>4
  <2>6. m \in 0..n
    OBVIOUS
  <2> HIDE DEF Is
  <2>7. QED
    BY <2>5, <2>6
<1> HIDE DEF Is
<1>3. n \in S
  <2> HIDE DEF S
  <2>1. \A i \in 0..n : i \in S
    BY <1>1, <1>2, UpTo
  <2>2. QED
    BY <2>1
<1>4. QED
  BY <1>3 DEF Is, IsFold

\* What it does, from one line to the next.
Runs(s, n, c, result) ==
    c[0] = NoCache /\ c[n] = result /\ \A i \in 1..n : c[i] = UpdateCache(c[i - 1], s[i])
LEMMA FoldRuns ==
    ASSUME NEW s, NEW n \in Nat, NEW g,
           IsFold(s, n, g)
    PROVE  \E c : Runs(s, n, c, g[1..n])
<1> DEFINE c == [i \in 0..n |-> g[1..i]]
<1>0. g = [t \in SUBSET (1..n) |->
             IF t = {} THEN NoCache ELSE UpdateCache(g[t \ {Max(t)}], s[Max(t)])]
  BY DEF IsFold
<1>1. c[0] = NoCache /\ c[n] = g[1..n]
  <2>1. c[0] = g[1..0] /\ c[n] = g[1..n]
    OBVIOUS
  <2>2. 1..0 = {} /\ {} \in SUBSET (1..n)
    OBVIOUS
  <2>3. g[{}] = NoCache
    BY <1>0, <2>2
  <2>4. QED
    BY <2>1, <2>2, <2>3
<1>2. ASSUME NEW i \in 1..n PROVE c[i] = UpdateCache(c[i - 1], s[i])
  <2>1. 1..i \in SUBSET (1..n) /\ 1..i # {} /\ i \in 1..i
    OBVIOUS
  <2>2. Max(1..i) = i
    <3>1. i \in Nat /\ 1..i \in SUBSET (1..i)
      OBVIOUS
    <3>2. Max(1..i) \in 1..i /\ \A x \in 1..i : x <= Max(1..i)
      BY <2>1, <3>1, Maximum
    <3>3. QED
      BY <2>1, <3>2
  <2>3. (1..i) \ {i} = 1..(i - 1)
    OBVIOUS
  <2>4. g[1..i] = UpdateCache(g[(1..i) \ {Max(1..i)}], s[Max(1..i)])
    BY <1>0, <2>1
  <2>5. c[i] = g[1..i] /\ c[i - 1] = g[1..(i - 1)]
    <3>1. i \in 0..n /\ i - 1 \in 0..n
      OBVIOUS
    <3>2. \A k \in 0..n : c[k] = g[1..k]
      OBVIOUS
    <3> HIDE DEF c
    <3>3. QED
      BY <3>1, <3>2, Zenon
  <2> HIDE DEF c
  <2>6. QED
    BY <2>2, <2>3, <2>4, <2>5
<1> HIDE DEF c
<1>3. QED
  BY <1>1, <1>2 DEF Runs

LEMMA LinesRun ==
  ASSUME NEW s, NEW n \in Nat, DOMAIN s = 1..n
  PROVE  \E c : Runs(s, n, c, Cache(s))
<1> DEFINE h == CHOOSE g : g = [t \in SUBSET (DOMAIN s) |->
                  IF t = {} THEN NoCache ELSE UpdateCache(g[t \ {Max(t)}], s[Max(t)])]
<1>1. Cache(s) = h[1..n]
  BY DEF Cache, FoldLeft, MapThenFoldSet
<1>2. IsFold(s, n, h)
  <2>1. PICK g : IsFold(s, n, g)
    BY FoldExists
  <2>2. g = [t \in SUBSET (1..n) |->
            IF t = {} THEN NoCache ELSE UpdateCache(g[t \ {Max(t)}], s[Max(t)])]
    BY <2>1 DEF IsFold
  <2>3. h = [t \in SUBSET (1..n) |->
            IF t = {} THEN NoCache ELSE UpdateCache(h[t \ {Max(t)}], s[Max(t)])]
    BY <2>2
  <2> HIDE DEF h
  <2>4. QED
    BY <2>3 DEF IsFold
<1> HIDE DEF h
<1>3. \E c : Runs(s, n, c, h[1..n])
  BY <1>2, FoldRuns
<1>4. QED
  BY <1>1, <1>3

\* What beholder answers is in order.
LEMMA AnswersAre ==
  ASSUME NEW s \in Answers
  PROVE  /\ Len(s) \in Nat /\ DOMAIN s = 1..Len(s) /\ InOrder(s)
         /\ \A i \in DOMAIN s : /\ s[i].arch \in DOMAIN WeakOf /\ s[i].devel \in BOOLEAN
                               /\ s[i].platform \in Nat /\ s[i].priority \in Nat
BY PlanAssumption

\* No line after the best of a package takes its place.
LEMMA LaterLines ==
  ASSUME lines \in Answers, NEW i \in DOMAIN lines, NEW j \in DOMAIN lines, i < j,
         NEW p, NEW beta, Best(i, p, beta),
         Key(lines[j], lines[i].arch) = Key(lines[i], lines[i].arch),
         lines[i].arch \in {lines[j].arch} \cup WeakOf[lines[j].arch]
  PROVE  /\ lines[j].priority = lines[i].priority /\ lines[j].priority >= lines[i].priority
         /\ lines[j].arch = lines[i].arch => lines[j].repos # {}
<1>1. /\ lines[i].platform \in Nat /\ lines[j].platform \in Nat
      /\ lines[i].priority \in Nat /\ lines[j].priority \in Nat
  BY AnswersAre
<1>2. \/ lines[i].platform < lines[j].platform
      \/ lines[i].platform = lines[j].platform /\ lines[i].priority >= lines[j].priority
  <2>1. InOrder(lines)
    BY AnswersAre
  <2>2. QED
    BY <2>1 DEF InOrder
<1>3. p.arch = lines[i].arch
  BY DEF Best
<1>4. /\ lines[j].platform <= lines[i].platform /\ lines[j].priority >= lines[i].priority
      /\ lines[j].repos # {} \/ ~SameAs(lines[j], lines[i])
  BY <1>3 DEF Best
<1>5. lines[j].platform = lines[i].platform /\ lines[j].priority = lines[i].priority
  BY <1>1, <1>2, <1>4
<1>6. QED
  BY <1>1, <1>4, <1>5 DEF SameAs

LEMMA BestIsKept ==
  ASSUME lines \in Answers, NEW i \in DOMAIN lines, NEW p, NEW beta, Best(i, p, beta),
         p.arch \notin Weak \ {I686}, lines[i].repos # {}
  PROVE  Kept(Cache(lines), lines[i])
<1>1. Len(lines) \in Nat /\ DOMAIN lines = 1..Len(lines)
  BY AnswersAre
<1>2. PICK n \in Nat : n = Len(lines)
  BY <1>1
<1>3. PICK c : Runs(lines, n, c, Cache(lines))
  BY <1>1, <1>2, LinesRun
<1>4. /\ c[n] = Cache(lines) /\ i \in 1..n
      /\ \A j \in 1..n : c[j] = UpdateCache(c[j - 1], lines[j])
  BY <1>1, <1>2, <1>3 DEF Runs
<1>5. \A a \in DOMAIN WeakOf : a \notin WeakOf[a]
  BY PlanAssumption
<1> DEFINE S == {j \in 0..n : j >= i => Kept(c[j], lines[i])}
<1>6. 0 \in S
  BY <1>4
<1>7. ASSUME NEW j \in 1..n, j - 1 \in S PROVE j \in S
  <2>0. j \in DOMAIN lines /\ c[j] = UpdateCache(c[j - 1], lines[j])
    BY <1>1, <1>2, <1>4
  <2>1. CASE j < i
    BY <1>4, <2>1
  <2>2. CASE j = i
    <3>1. lines[i].arch \notin WeakOf[lines[i].arch]
      BY <1>5, AnswersAre
    <3>2. Kept(UpdateCache(c[j - 1], lines[i]), lines[i])
      <4> DEFINE k == Key(lines[i], lines[i].arch)
                 new == UpdateCache(c[j - 1], lines[i])
      <4>1. k \in DOMAIN new
            /\ new[k] = [repos |-> lines[i].repos \cup Repos(c[j - 1], k), priority |-> lines[i].priority]
        BY <3>1, LineIsKnown
      <4> HIDE DEF new
      <4>2. QED
        BY <4>1 DEF Kept, new
    <3>3. QED
      BY <2>0, <2>2, <3>2
  <2>3. CASE i < j
    <3>1. Kept(c[j - 1], lines[i])
      BY <1>4, <1>7, <2>3
    <3>2. lines[j].arch \in DOMAIN WeakOf
      BY <2>0, AnswersAre
    <3>3. lines[i].arch \in Weak => lines[i].arch = I686
      BY DEF Best
    <3>4. Key(lines[j], lines[i].arch) = Key(lines[i], lines[i].arch)
            /\ lines[i].arch \in {lines[j].arch} \cup WeakOf[lines[j].arch] =>
               /\ lines[j].priority = lines[i].priority /\ lines[j].priority >= lines[i].priority
               /\ lines[j].arch = lines[i].arch => lines[j].repos # {}
      BY <2>0, <2>3, LaterLines
    <3>5. Kept(UpdateCache(c[j - 1], lines[j]), lines[i])
      BY <1>5, <3>1, <3>2, <3>3, <3>4, LaterLineKeeps
    <3>6. QED
      BY <2>0, <3>5
  <2>4. QED
    BY <1>4, <2>1, <2>2, <2>3
<1>8. n \in S
  <2> HIDE DEF S
  <2>1. \A j \in 0..n : j \in S
    BY <1>6, <1>7, UpTo
  <2>2. QED
    BY <2>1
<1>9. QED
  BY <1>4, <1>8

\* The planner finds them for the package,
LEMMA BestIsFound ==
  ASSUME lines \in Answers, NEW i \in DOMAIN lines, NEW p, NEW b, Best(i, p, b \in Beta),
         p.arch \notin Weak \ {I686}, lines[i].repos # {}, NEW f \in Found(p, b, Cache(lines))
  PROVE  lines[i].repos \subseteq f
<1> DEFINE cache == Cache(lines)
           k == Key(lines[i], lines[i].arch)
           beta == b \in Beta
<1>1. Kept(cache, lines[i])
  BY BestIsKept
<1>2. k \in DOMAIN cache /\ lines[i].repos \subseteq Repos(cache, k)
  BY <1>1 DEF Kept, Repos
<1>3. k = [version |-> p.version, arch |-> p.arch, beta |-> beta, devel |-> lines[i].devel]
  BY DEF Best, Key
<1>4. FindReleaseRepos(cache, p.version, p.arch, beta, lines[i].devel) = {Repos(cache, k)}
  <2> HIDE DEF cache, beta, k
  <2>1. QED
    BY <1>2, <1>3 DEF FindReleaseRepos
<1>5. lines[i].devel \in BOOLEAN
  BY AnswersAre
<1>6. PICK plain \in FindReleaseRepos(cache, p.version, p.arch, beta, FALSE),
           devel \in FindReleaseRepos(cache, p.version, p.arch, beta, TRUE) : f = plain \cup devel
  <2> DEFINE A == FindReleaseRepos(cache, p.version, p.arch, beta, FALSE)
             B == FindReleaseRepos(cache, p.version, p.arch, beta, TRUE)
  <2>1. Found(p, b, cache) = {plain \cup devel : plain \in A, devel \in B}
    BY SMT DEF Found
  <2> HIDE DEF A, B
  <2>2. \E plain \in A, devel \in B : f = plain \cup devel
    BY <2>1
  <2>3. QED
    BY <2>2, Zenon DEF A, B
<1> HIDE DEF cache, k, beta
<1>7. CASE lines[i].devel = TRUE
  <2>1. devel \in {Repos(cache, k)}
    BY <1>4, <1>6, <1>7, Zenon
  <2>2. QED
    BY <1>2, <1>6, <2>1
<1>8. CASE lines[i].devel = FALSE
  <2>1. plain \in {Repos(cache, k)}
    BY <1>4, <1>6, <1>8, Zenon
  <2>2. QED
    BY <1>2, <1>6, <2>1
<1>9. QED
  BY <1>5, <1>7, <1>8

\* and an entry of the plan has each that the platform has.
EnteredFor(entries, p, repo) ==
    \E e \in entries : /\ e.package = p
                       /\ \E own \in e.repos : own[1] = repo[1]
                       /\ repo[2] \in e.arches
LEMMA EntriesHave ==
  ASSUME NEW p, NEW f, NEW repo \in f \cap PlatformRepo, NEW entries \in Entries(p, Known(p, f))
  PROVE  EnteredFor(entries, p, repo)
<1> DEFINE repos == Known(p, f)
           named == [name \in {other[1] : other \in repos} |-> {other \in repos : other[1] = name}]
<1>1. repo \in repos
  BY DEF Known
<1> HIDE DEF repos
<1>2. PICK chosen \in Selections(named) : entries = {Entry(p, repos, other) : other \in Range(chosen)}
  BY DEF Entries, repos
<1>3. repo[1] \in DOMAIN named /\ DOMAIN chosen = DOMAIN named
  BY <1>1, <1>2 DEF Selections
<1>4. chosen[repo[1]] \in named[repo[1]]
  <2> HIDE DEF named
  <2>1. QED
    BY <1>2, <1>3, SelectionsChoose
<1> DEFINE own == chosen[repo[1]]
           e == Entry(p, repos, own)
<1>5. own[1] = repo[1]
  BY <1>3, <1>4
<1>6. e \in entries
  <2>1. own \in Range(chosen)
    BY <1>3 DEF Range
  <2>2. QED
    BY <1>2, <2>1
<1>7. e.package = p /\ e.repos = {own}
  BY DEF Entry
<1>8. repo[2] \in e.arches
  <2> DEFINE archs == {other[2] : other \in {other \in repos : other[1] = own[1]}}
  <2>1. repo[2] \in archs /\ repo[2] \in Arch
    BY <1>1, <1>5 DEF Arch
  <2>2. e.arches = IF p.arch = "noarch" THEN Arch
                   ELSE IF p.arch = I686 /\ "x86_64" \in archs THEN archs \cup {I686} ELSE archs
    BY DEF Entry
  <2> HIDE DEF archs, e
  <2>3. QED
    BY <2>1, <2>2
<1> HIDE DEF e, own
<1>9. \E o \in e.repos : o[1] = repo[1]
  BY <1>5, <1>7
<1>10. QED
  BY <1>6, <1>7, <1>8, <1>9 DEF EnteredFor

\* A new plan has the best answers of every package.
Covers(entries, r) ==
    \A p \in Package, i \in DOMAIN lines :
        Best(i, p, BuildOf[r] \in Beta) /\ p.arch \notin Weak \ {I686} =>
            \A repo \in lines[i].repos \cap PlatformRepo : EnteredFor(entries, p, repo)
LEMMA NewPlanCovers ==
  ASSUME lines \in Answers, NEW r \in Release, NEW entries \in Plans(r, Cache(lines))
  PROVE  Covers(entries, r)
<1> DEFINE cache == Cache(lines)
           b == BuildOf[r]
           possible == [p \in Package |-> EntriesFor(p, b, cache)]
<1>1. PICK choice \in Selections(possible) : entries = UNION Range(choice)
  BY DEF Plans
<1>2. DOMAIN choice = Package /\ \A p \in Package : choice[p] \in EntriesFor(p, b, cache)
  BY <1>1 DEF Selections
<1> SUFFICES ASSUME NEW p \in Package, NEW i \in DOMAIN lines, Best(i, p, BuildOf[r] \in Beta),
                    p.arch \notin Weak \ {I686}, NEW repo \in lines[i].repos \cap PlatformRepo
             PROVE  EnteredFor(entries, p, repo)
  BY Zenon DEF Covers
<1>3. PICK f \in Found(p, b, cache) : choice[p] \in Entries(p, Known(p, f))
  BY <1>2 DEF EntriesFor
<1>4. lines[i].repos \subseteq f
  <2>1. lines[i].repos # {}
    OBVIOUS
  <2>2. QED
    BY <1>3, <2>1, BestIsFound
<1>5. EnteredFor(choice[p], p, repo)
  <2>1. repo \in f \cap PlatformRepo
    BY <1>4
  <2>2. QED
    BY <1>3, <2>1, EntriesHave
<1>6. choice[p] \subseteq entries
  BY <1>1, <1>2 DEF Range
<1>7. QED
  BY <1>5, <1>6 DEF EnteredFor

\* The check of what production has takes none of it away.
LEMMA CheckedCovers ==
  ASSUME NEW r \in Release, NEW entries, entries \subseteq Planned, Covers(entries, r),
         NEW checked \in Checked(entries)
  PROVE  Covers(checked, r)
<1> DEFINE possible == [p \in Package |-> IF Present(p) = {} THEN {Nothing} ELSE Present(p)]
<1>1. PICK found \in Selections(possible) :
         checked = {[e EXCEPT !.from = IF found[e.package] = Nothing THEN @ ELSE found[e.package]] :
                       e \in entries}
  BY DEF Checked
<1>2. ASSUME NEW e \in entries
      PROVE  \E new \in checked : new.package = e.package /\ new.repos = e.repos /\ new.arches = e.arches
  <2> DEFINE new == [e EXCEPT !.from = IF found[e.package] = Nothing THEN @ ELSE found[e.package]]
  <2>1. new \in checked
    BY <1>1
  <2>2. e \in Planned
    OBVIOUS
  <2>3. new.package = e.package /\ new.repos = e.repos /\ new.arches = e.arches
    BY <2>2 DEF Planned
  <2> HIDE DEF new
  <2>4. QED
    BY <2>1, <2>3
<1>3. ASSUME NEW p, NEW repo, EnteredFor(entries, p, repo) PROVE EnteredFor(checked, p, repo)
  <2>1. PICK e \in entries : /\ e.package = p /\ repo[2] \in e.arches
                             /\ \E own \in e.repos : own[1] = repo[1]
    BY <1>3 DEF EnteredFor
  <2>2. PICK new \in checked : new.package = e.package /\ new.repos = e.repos /\ new.arches = e.arches
    BY <1>2
  <2>3. QED
    BY <2>1, <2>2 DEF EnteredFor
<1>4. QED
  BY <1>3, Zenon DEF Covers

------------------------------------------------------------------------------
(* Plans keep the best answers                                             *)

BestInv ==
    /\ community => lines = <<>>
    /\ ~community => lines \in Answers
    /\ BestAnswerIsPlanned

LEMMA BestIsCovered ==
  BestAnswerIsPlanned <=> \A r \in Release \ edited : plan[r] # Nothing => Covers(plan[r], r)
BY Zenon DEF BestAnswerIsPlanned, Covers, EnteredFor

LEMMA BestNext ==
  ASSUME UNCHANGED lines, \A r \in Release \ edited' : plan'[r] # Nothing => Covers(plan'[r], r)
  PROVE  BestAnswerIsPlanned'
BY DEF BestAnswerIsPlanned, Covers, Best, EnteredFor

\* No answer of beholder is used for a community product.
LEMMA UpdatedCovers ==
  ASSUME PlanInv, BestInv, NEW r \in Release, NEW entries, Agreed(entries), Covers(entries, r),
         NEW checked \in Updated(entries)
  PROVE  Covers(checked, r)
<1>1. CASE community
  BY <1>1 DEF Updated
<1>2. CASE ~community
  <2>1. checked \in Checked(entries)
    BY <1>2 DEF Updated
  <2>2. entries \subseteq Planned
    BY DEF Agreed
  <2>3. QED
    BY <2>1, <2>2, CheckedCovers
<1>3. QED
  BY <1>1, <1>2

LEMMA BestStep == PlanInv /\ BestInv /\ [PlanNext]_planVars => BestInv'
<1> SUFFICES ASSUME PlanInv, BestInv, [PlanNext]_planVars PROVE BestInv'
  OBVIOUS
<1>1. ASSUME NEW r \in Release, Plan(r) PROVE BestAnswerIsPlanned'
  <2>1. PICK entries \in (IF community THEN CommunityPlans ELSE Plans(r, Cache(lines))) :
           \E checked \in Updated(entries) : plan' = [plan EXCEPT ![r] = checked]
    BY <1>1 DEF Plan
  <2>2. PICK checked \in Updated(entries) : plan' = [plan EXCEPT ![r] = checked]
    BY <2>1
  <2>3. Agreed(entries)
    <3>1. entries \subseteq Planned /\ \A e \in entries : e.from = Nothing
      BY <2>1, PlansPlanned, CommunityPlanned
    <3>2. QED
      BY <3>1 DEF Agreed
  <2>4. Covers(entries, r)
    <3>1. CASE community
      <4>1. DOMAIN lines = {}
        BY <3>1 DEF BestInv
      <4>2. QED
        BY <4>1 DEF Covers
    <3>2. CASE ~community
      BY <2>1, <3>2, NewPlanCovers DEF BestInv
    <3>3. QED
      BY <3>1, <3>2
  <2>5. Covers(checked, r)
    BY <2>2, <2>3, <2>4, UpdatedCovers
  <2>6. UNCHANGED <<lines, edited>>
    BY <1>1 DEF Plan
  <2>7. \A q \in Release : plan'[q] = IF q = r THEN checked ELSE plan[q]
    BY <2>2 DEF PlanInv
  <2>8. \A q \in Release \ edited' : plan'[q] # Nothing => Covers(plan'[q], q)
    BY <2>5, <2>6, <2>7, BestIsCovered DEF BestInv
  <2>9. QED
    BY <2>6, <2>8, BestNext
<1>2. ASSUME NEW r \in Release, Edit(r) PROVE BestAnswerIsPlanned'
  <2>1. edited' = edited \cup {r} /\ UNCHANGED lines
    BY <1>2 DEF Edit
  <2>2. \A q \in Release : q # r => plan'[q] = plan[q]
    <3>1. PICK force \in SUBSET Package, all \in SUBSET Package :
            \E checked : plan' = [plan EXCEPT ![r] = checked]
      BY <1>2 DEF Edit
    <3>2. QED
      BY <3>1 DEF PlanInv
  <2>3. \A q \in Release \ edited' : plan'[q] # Nothing => Covers(plan'[q], q)
    BY <2>1, <2>2, BestIsCovered DEF BestInv
  <2>4. QED
    BY <2>1, <2>3, BestNext
<1>3. ASSUME NEW r \in Release, Commit(r) PROVE BestAnswerIsPlanned'
  <2>1. PICK entries \in Updated(plan[r]) : plan' = IF log' = log THEN plan ELSE [plan EXCEPT ![r] = entries]
    BY <1>3 DEF Commit
  <2>2. plan[r] # Nothing /\ UNCHANGED <<lines, edited>>
    BY <1>3 DEF Commit
  <2>3. r \notin edited => Covers(entries, r)
    <3>1. Agreed(plan[r])
      BY <2>2 DEF PlanInv, PlansAgree
    <3>2. r \notin edited => Covers(plan[r], r)
      BY <2>2, BestIsCovered DEF BestInv
    <3>3. QED
      BY <2>1, <3>1, <3>2, UpdatedCovers
  <2>4. \A q \in Release : plan'[q] = plan[q] \/ (q = r /\ plan'[q] = entries)
    BY <2>1 DEF PlanInv
  <2>5. \A q \in Release \ edited' : plan'[q] # Nothing => Covers(plan'[q], q)
    BY <2>2, <2>3, <2>4, BestIsCovered DEF BestInv
  <2>6. QED
    BY <2>2, <2>5, BestNext
<1>4. ASSUME UNCHANGED <<lines, plan, edited>> PROVE BestAnswerIsPlanned'
  <2>1. \A q \in Release \ edited' : plan'[q] # Nothing => Covers(plan'[q], q)
    BY <1>4, BestIsCovered DEF BestInv
  <2>2. QED
    BY <1>4, <2>1, BestNext
<1>5. UNCHANGED <<community, lines>>
  BY DEF PlanNext, Plan, Edit, Commit, Revert, planVars
<1>6. BestAnswerIsPlanned'
  BY <1>1, <1>2, <1>3, <1>4 DEF PlanNext, Revert, planVars
<1>7. QED
  BY <1>5, <1>6 DEF BestInv

\* What the most important platform says best of a package is in its plan, whatever
\* other platforms, architectures and matches beholder answers with and in whatever
\* numbers (update_beholder_cache, find_release_repos, get_release_plan).
THEOREM BestAnswersArePlanned == PlanSpec => []BestAnswerIsPlanned
<1>1. PlanInit => BestInv
  BY DEF PlanInit, BestInv, BestAnswerIsPlanned
<1>2. BestInv => BestAnswerIsPlanned
  BY DEF BestInv
<1>3. QED
  BY <1>1, <1>2, BestStep, PlansInvariant, PTL DEF PlanSpec
===============================================================================
