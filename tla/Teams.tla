-------------------------------- MODULE Teams ---------------------------------
(***************************************************************************)
(* Users, the teams that own products, and the roles that decide what a    *)
(* user may do with a team and with what belongs to it.                    *)
(*                                                                         *)
(* Every request is one transaction of the API: it reads what it checks    *)
(* and writes what follows, and keys of the database refuse the rest.      *)
(***************************************************************************)
EXTENDS Integers, FiniteSets

CONSTANTS
    User, Team,
    Superuser,     \* users that may do everything
    ManagerNamed,  \* teams with "manager" in their name
    ContributorNamed, \* teams with "contributor" in their name
    None

ASSUME TeamsAssumption ==
    /\ Superuser \subseteq User /\ ManagerNamed \subseteq Team
    /\ None \notin [owner : User, members : SUBSET User]

VARIABLES
    user,   \* users in the database
    team,   \* owner and members of a team, None when there is none
    roles   \* the team roles a user has
teamVars == <<user, team, roles>>

RoleName == {"contributor", "manager", "observer", "product_maintainer", "signer"}
RolesOf(t) == {t} \X RoleName
\* What the roles allow of the actions checked here
RoleActions(name) ==
    CASE name = "manager" ->
            {"AssignTeamRole", "UpdateTeam", "DeleteTeam", "CreateBuild", "UpdateProduct",
             "DeleteProduct"}
      [] name \in {"contributor", "product_maintainer", "signer"} -> {"CreateBuild"}
      [] name = "observer" -> {}

\* ActionsMaskMapping, and the permissions 764 every object is created with
Mask(action) == IF action \in {"DeleteTeam", "DeleteProduct"} THEN "delete" ELSE "write"
OwnerMay == {"read", "write", "delete"}
GroupMay == {"read", "write"}
OtherMay == {"read"}

\* can_perform: the mask of the owner, the group or the others allows the action,
\* and so does one of the roles the user and the object have in common
CanPerform(u, owner, objRoles, action) ==
    \/ u \in Superuser
    \/ LET groups == roles[u] \cap objRoles IN
       /\ Mask(action) \in (IF u = owner THEN OwnerMay
                            ELSE IF groups # {} THEN GroupMay ELSE OtherMay)
       /\ \E g \in groups : action \in RoleActions(g[2])
TeamAllows(u, t, action) == CanPerform(u, team[t].owner, RolesOf(t), action)

TeamsTypeOK ==
    /\ user \subseteq User
    /\ team \in [Team -> [owner : user, members : SUBSET user] \cup {None}]
    /\ roles \in [User -> SUBSET {tr \in Team \X RoleName : team[tr[1]] # None}]
    /\ \A u \in User \ user : roles[u] = {}

\* The role looked up as the manager's by a part of its name: for a new team
\* whose own name has that part, the first role there is.
ManagerRole(t) == <<t, IF t \in ManagerNamed THEN "contributor" ELSE "manager">>

\* create_team with its roles
NewTeam(t, owner) ==
    /\ owner \in user /\ team[t] = None
    /\ team' = [team EXCEPT ![t] = [owner |-> owner, members |-> {owner}]]

CreateTeam(t, owner) ==
    /\ NewTeam(t, owner)
    /\ roles' = [roles EXCEPT ![owner] = @ \cup {ManagerRole(t)}]
    /\ UNCHANGED user

\* The roles in which that of a contributor is found by a part of its name, in
\* the order the database gives them: any of a team whose own name has that part.
ContributorRoles(t) == {t} \X (IF t \in ContributorNamed THEN RoleName ELSE {"contributor"})

\* update_members
AddMember(u, t, m) ==
    /\ team[t] # None /\ {u, m} \subseteq user /\ TeamAllows(u, t, "UpdateTeam")
    /\ team' = [team EXCEPT ![t].members = @ \cup {m}]
    /\ \E r \in ContributorRoles(t) : roles' = [roles EXCEPT ![m] = @ \cup {r}]
    /\ UNCHANGED user

\* Roles are removed from the list that is iterated over, so the one behind a
\* removed role is passed by.  These are the sets of the team's roles that some
\* order of the list spares: each is behind a removed one, and a removed role is
\* before a spared one, before a role of another team, or last.
Spared(mine, others) ==
    {kept \in SUBSET mine :
        LET removed == Cardinality(mine \ kept) IN
        /\ Cardinality(kept) <= removed
        /\ removed <= Cardinality(kept) + Cardinality(others) + 1}

RemoveMember(u, t, m) ==
    /\ team[t] # None /\ {u, m} \subseteq user /\ TeamAllows(u, t, "UpdateTeam")
    /\ m \in team[t].members /\ m # team[t].owner
    /\ team' = [team EXCEPT ![t].members = @ \ {m}]
    /\ \E r \in ContributorRoles(t) \cap roles[m] :
          LET left == roles[m] \ {r}
              mine == left \cap RolesOf(t)
          IN \E kept \in Spared(mine, left \ mine) : roles' = [roles EXCEPT ![m] = (left \ mine) \cup kept]
    /\ UNCHANGED user

\* Mutant: the owner of the team is not looked at.
MayAssign(u, m, rs) == \A t \in {r[1] : r \in rs} : TeamAllows(u, t, "AssignTeamRole")

\* can_edit_teams_roles
CanEditTeamsRoles(u, m, rs) ==
    \A t \in {r[1] : r \in rs} : TeamAllows(u, t, "AssignTeamRole") /\ team[t].owner # m

\* add_roles and remove_roles, which do not ask whether the user is a member
AddRoles(u, m, rs) ==
    /\ {u, m} \subseteq user /\ \A r \in rs : team[r[1]] # None
    /\ CanEditTeamsRoles(u, m, rs)
    /\ roles' = [roles EXCEPT ![m] = @ \cup rs]
    /\ UNCHANGED <<user, team>>

RemoveRoles(u, m, rs) ==
    /\ {u, m} \subseteq user /\ \A r \in rs : team[r[1]] # None
    /\ CanEditTeamsRoles(u, m, rs)
    /\ roles' = [roles EXCEPT ![m] = @ \ rs]
    /\ UNCHANGED <<user, team>>

\* remove_team; the roles go with the team.  What refers to the team keeps it.
RemoveTeam(u, t, referred) ==
    /\ team[t] # None /\ u \in user /\ TeamAllows(u, t, "DeleteTeam") /\ ~referred
    /\ team' = [team EXCEPT ![t] = None]
    /\ roles' = [v \in User |-> roles[v] \ RolesOf(t)]
    /\ UNCHANGED user

\* The owner of a team stays a member and keeps the manager's role, whatever
\* members and managers change, unless the name of the team hides that role.
OwnerManages ==
    \A t \in Team \ ManagerNamed : team[t] # None =>
        team[t].owner \in team[t].members /\ <<t, "manager">> \in roles[team[t].owner]
===============================================================================
