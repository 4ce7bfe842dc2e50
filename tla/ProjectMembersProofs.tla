------------------------ MODULE ProjectMembersProofs ------------------------
(***************************************************************************)
(* A project keeps an admin as long as statements on its members do not    *)
(* overlap.  HasAdmin is not inductive: a pending statement may take an    *)
(* admin away when it commits.  The invariant says that the verdict of the *)
(* trigger on it still stands, which only one session at a time can        *)
(* guarantee.                                                              *)
(***************************************************************************)
EXTENDS ProjectMembers, TLAPS

Becomes == {"admin", "viewer", "deleted"}

Pending(s) ==
    /\ project
    /\ session[s].member \in Members /\ session[s].becomes \in Becomes
    /\ members[session[s].member] \in {"admin", "viewer"}
    /\ ProtectLastAdmin(session[s].member, session[s].becomes)

IInv ==
    /\ TypeOK
    /\ project \/ \A m \in Members : members[m] = "absent"
    /\ \A s \in Sessions : session[s] = Idle \/ Pending(s)
    /\ HasAdmin

OneSession == \A s, t \in Sessions : s = t

LEMMA InitIInv ==
    ASSUME Init
    PROVE  IInv
  <1>1. project = FALSE /\ members \in [Members -> Member]
    BY DEF Init, Member
  <1>2. Idle \in [member : Members \cup {None}, becomes : Member]
    BY DEF Idle, Member
  <1>3. \A s \in Sessions : session[s] = Idle
    BY DEF Init
  <1>4. session \in [Sessions -> [member : Members \cup {None}, becomes : Member]]
    BY <1>2 DEF Init
  <1>5. \A m \in Members : members[m] = "absent"
    BY DEF Init
  <1> QED BY <1>1, <1>3, <1>4, <1>5 DEF IInv, TypeOK, HasAdmin

(* Creating the project or adding a member leaves every pending statement  *)
(* and every admin as they are.                                            *)
LEMMA InsertKeepsIInv ==
    ASSUME IInv, NEW m \in Members, NEW role \in {"admin", "viewer"},
           CreateProject(m) \/ AddProjectMember(m, role)
    PROVE  IInv'
  <1>1. CASE CreateProject(m)
    <2>1. \A s \in Sessions : session[s] = Idle
      BY <1>1 DEF IInv, Pending, CreateProject
    <2> QED BY <1>1, <2>1 DEF IInv, CreateProject, TypeOK, Member, HasAdmin
  <1>2. CASE AddProjectMember(m, role)
    <2>1. TypeOK'
      BY <1>2 DEF IInv, AddProjectMember, TypeOK, Member
    <2>2. \A n \in Members \ {m} : members'[n] = members[n]
      BY <1>2 DEF IInv, AddProjectMember, TypeOK
    <2>3. ASSUME NEW s \in Sessions, session[s] # Idle PROVE Pending(s)'
      <3>1. Pending(s) /\ session' = session /\ project'
        BY <1>2, <2>3 DEF IInv, AddProjectMember
      <3>2. session[s].member # m
        BY <1>2, <3>1 DEF Pending, AddProjectMember
      <3> QED BY <2>2, <3>1, <3>2, <1>2 DEF Pending, ProtectLastAdmin, OtherAdmins, AddProjectMember
    <2>4. HasAdmin'
      BY <1>2, <2>2 DEF IInv, HasAdmin, AddProjectMember
    <2> QED BY <1>2, <2>1, <2>3, <2>4 DEF IInv, AddProjectMember
  <1> QED BY <1>1, <1>2

(* An executed statement changes nothing that is committed; the trigger    *)
(* has just judged it.                                                     *)
LEMMA UpdateKeepsIInv ==
    ASSUME IInv, NEW s \in Sessions, NEW m \in Members, NEW becomes \in Becomes,
           Update(s, m, becomes)
    PROVE  IInv'
  <1>1. TypeOK'
    BY DEF IInv, Update, TypeOK, Member, Becomes
  <1>2. Pending(s)'
    BY DEF IInv, Update, TypeOK, Pending, ProtectLastAdmin, OtherAdmins
  <1>3. ASSUME NEW t \in Sessions, t # s PROVE session'[t] = Idle \/ Pending(t)'
    BY <1>3 DEF IInv, Update, TypeOK, Pending, ProtectLastAdmin, OtherAdmins
  <1> QED BY <1>1, <1>2, <1>3 DEF IInv, Update, HasAdmin

(* The end of the only statement under way. *)
LEMMA EndKeepsIInv ==
    ASSUME IInv, OneSession, NEW s \in Sessions, Commit(s) \/ Rollback(s)
    PROVE  IInv'
  <1>1. Pending(s) /\ project' = project
    BY DEF IInv, Commit, Rollback
  <1>2. TypeOK'
    BY <1>1 DEF IInv, TypeOK, Commit, Rollback, Idle, Member, Pending, Becomes
  <1>3. \A t \in Sessions : session'[t] = Idle
    BY DEF OneSession, IInv, TypeOK, Commit, Rollback
  <1>4. HasAdmin'
    <2> DEFINE m == session[s].member
    <2>1. CASE Rollback(s)
      BY <2>1 DEF IInv, HasAdmin, Rollback
    <2>2. CASE Commit(s)
      <3>1. members'[m] = session[s].becomes /\ \A n \in Members \ {m} : members'[n] = members[n]
        BY <1>1, <2>2 DEF IInv, TypeOK, Commit, Pending
      <3>2. CASE session[s].becomes = "admin"
        BY <1>1, <3>1, <3>2 DEF HasAdmin, Pending
      <3>3. CASE session[s].becomes # "admin"
        <4>1. PICK n \in Members \ {m} : members[n] = "admin"
          BY <1>1, <3>3 DEF IInv, HasAdmin, Pending, ProtectLastAdmin, OtherAdmins
        <4> QED BY <3>1, <4>1 DEF HasAdmin
      <3> QED BY <3>2, <3>3
    <2> QED BY <2>1, <2>2
  <1> QED BY <1>1, <1>2, <1>3, <1>4 DEF IInv, Pending

LEMMA NextIInv ==
    ASSUME OneSession, IInv, [Next]_vars
    PROVE  IInv'
  <1>1. CASE UNCHANGED vars
    BY <1>1 DEF vars, IInv, TypeOK, Pending, ProtectLastAdmin, OtherAdmins, HasAdmin
  <1>2. CASE \E m \in Members : CreateProject(m)
    BY <1>2, InsertKeepsIInv
  <1>3. CASE \E m \in Members, role \in {"admin", "viewer"} : AddProjectMember(m, role)
    BY <1>3, InsertKeepsIInv
  <1>4. CASE \E s \in Sessions, m \in Members, becomes \in Becomes : Update(s, m, becomes)
    BY <1>4, UpdateKeepsIInv
  <1>5. CASE \E s \in Sessions : Commit(s) \/ Rollback(s)
    BY <1>5, EndKeepsIInv
  <1> QED
    BY <1>1, <1>2, <1>3, <1>4, <1>5
    DEF Next, UpdateProjectMemberRole, RemoveProjectMember, Becomes

(* With one session at a time a project never loses its last admin: the    *)
(* trigger project_members_tr_protect_last_admin is enough, whatever       *)
(* members come, go, are promoted and demoted, and whatever rolls back.    *)
(* Run project_members_two shows that the assumption is needed.            *)
THEOREM LastAdminSafety ==
    ASSUME OneSession
    PROVE  Spec => []HasAdmin
  <1>1. Init => IInv
    BY InitIInv
  <1>2. IInv /\ [Next]_vars => IInv'
    BY NextIInv
  <1>3. IInv => HasAdmin
    BY DEF IInv
  <1> QED BY <1>1, <1>2, <1>3, PTL DEF Spec
=============================================================================
