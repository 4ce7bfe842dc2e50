--------------------------- MODULE ProjectMembers ---------------------------
(***************************************************************************)
(* The admins of a project: the trigger on tenant.project_members that     *)
(* protects the last one, under the statements of organization-api.        *)
(* Postgres runs them READ COMMITTED: a statement holds the row it changes *)
(* until it commits, and its trigger counts what others have committed.    *)
(***************************************************************************)
EXTENDS FiniteSets, Naturals

CONSTANTS
    Members,   \* rows of tenant.project_members for one project
    Sessions,  \* connections of organization-api
    None       \* no member

VARIABLES
    project,  \* the project's row has been committed
    members,  \* what is committed of each member
    session   \* the statement each connection has executed and not committed

vars == <<project, members, session>>

Member == {"absent", "admin", "viewer", "deleted"}

Idle == [member |-> None, becomes |-> "absent"]

TypeOK ==
    /\ project \in BOOLEAN
    /\ members \in [Members -> Member]
    /\ session \in [Sessions -> [member : Members \cup {None}, becomes : Member]]

Init ==
    /\ project = FALSE
    /\ members = [m \in Members |-> "absent"]
    /\ session = [s \in Sessions |-> Idle]

-----------------------------------------------------------------------------
\* CreateProject inserts the project and its first admin in one transaction, at
\* the end of which require_admin looks for an admin.
CreateProject(m) ==
    /\ ~project
    /\ project' = TRUE
    /\ members' = [members EXCEPT ![m] = "admin"]
    /\ UNCHANGED session

\* ProjectMemberCreate; the trigger is on updates.
AddProjectMember(m, role) ==
    /\ project
    /\ members[m] = "absent"
    /\ members' = [members EXCEPT ![m] = role]
    /\ UNCHANGED <<project, session>>

OtherAdmins(m) == {n \in Members \ {m} : members[n] = "admin"}

\* project_members_tr_protect_last_admin lets the update through.
ProtectLastAdmin(m, becomes) ==
    members[m] = "admin" /\ becomes # "admin" => OtherAdmins(m) # {}

\* The UPDATE is executed: it waits for the row's lock, then its trigger runs.
Update(s, m, becomes) ==
    /\ session[s] = Idle
    /\ \A t \in Sessions : session[t].member # m
    /\ members[m] \in {"admin", "viewer"}
    /\ ProtectLastAdmin(m, becomes)
    /\ session' = [session EXCEPT ![s] = [member |-> m, becomes |-> becomes]]
    /\ UNCHANGED <<project, members>>

UpdateProjectMemberRole(s, m, role) == Update(s, m, role)

RemoveProjectMember(s, m) == Update(s, m, "deleted")

Commit(s) ==
    /\ session[s] # Idle
    /\ members' = [members EXCEPT ![session[s].member] = session[s].becomes]
    /\ session' = [session EXCEPT ![s] = Idle]
    /\ UNCHANGED project

\* The connection is lost before the commit.
Rollback(s) ==
    /\ session[s] # Idle
    /\ session' = [session EXCEPT ![s] = Idle]
    /\ UNCHANGED <<project, members>>

Next ==
    \/ \E m \in Members : CreateProject(m)
    \/ \E m \in Members, role \in {"admin", "viewer"} : AddProjectMember(m, role)
    \/ \E s \in Sessions, m \in Members :
        \/ \E role \in {"admin", "viewer"} : UpdateProjectMemberRole(s, m, role)
        \/ RemoveProjectMember(s, m)
    \/ \E s \in Sessions : Commit(s) \/ Rollback(s)

Spec == Init /\ [][Next]_vars

-----------------------------------------------------------------------------
(* Properties *)

\* "Project must have at least one admin": the trigger refuses to remove or demote
\* the last one, in whatever order members come and go.
HasAdmin == project => \E m \in Members : members[m] = "admin"
=============================================================================
