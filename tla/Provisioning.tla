----------------------------- MODULE Provisioning -----------------------------
(* Users, groups and access policies of the auth service                      *)
(* (specton-auth/src/main.rs): the SCIM endpoints an identity provider calls, *)
(* provision_user at every login, and resolve_role when a token is issued.    *)
(*                                                                            *)
(* Users, SCIM groups and policies sit behind three RwLocks.  A SCIM request  *)
(* changes the user under one lock and the policies under another, so two     *)
(* requests interleave between them; a group PATCH keeps the group lock while *)
(* it applies policies.  One tenant; a subject is never the bootstrap admin.  *)
EXTENDS Naturals, Sequences, FiniteSets, FiniteSetsExt

CONSTANTS Subjects, Groups, Requests,
          Mappings,        \* 1..n -> [matches, grants : SUBSET Groups, role, tenant, project]
          AutoProvision,   \* enterprise.auto_provision_users
          AutoDeactivate,  \* enterprise.scim.auto_deactivate
          Absent

Reader == 0
Maintainer == 1
Admin == 2

(* group_matches and the substring test of apply_group_policies read the same *)
(* pattern differently, hence the two sets of groups of a mapping.  It names  *)
(* the tenant, or one that does not exist, and no project, one of the         *)
(* tenant's, or one that does not exist.                                      *)
ASSUME MappingsAssumption ==
    /\ Len(Mappings) \in Nat /\ DOMAIN Mappings = 1..Len(Mappings)
    /\ \A i \in DOMAIN Mappings :
        /\ Mappings[i].matches \subseteq Groups
        /\ Mappings[i].grants \subseteq Groups
        /\ Mappings[i].role \in {Reader, Maintainer, Admin}
        /\ Mappings[i].tenant \in BOOLEAN
        /\ Mappings[i].project \in {"none", "known", "unknown"}
    /\ (\A gs \in SUBSET Groups : Absent # gs) /\ Absent \notin {Reader, Maintainer, Admin}

VARIABLES users,     \* subject -> groups of its UserRecord, or Absent
          groups,    \* group -> members of the ScimGroup, or Absent
          policies,  \* subject -> mappings its policies were made from, in list order
          req,       \* SCIM requests between two of their locks
          given,     \* ghost: groups named for the subject since a clean offboarding
          drift      \* ghost: subjects whose policies were not recomputed

pvars == <<users, groups, policies, req, given, drift>>

Free == [op |-> "free"]

ProvTypeOK ==
    /\ users \in [Subjects -> (SUBSET Groups) \cup {Absent}]
    /\ groups \in [Groups -> (SUBSET Subjects) \cup {Absent}]
    /\ policies \in [Subjects -> SUBSET DOMAIN Mappings]
    /\ given \in [Subjects -> SUBSET Groups]
    /\ drift \subseteq Subjects
    /\ \A r \in Requests : req[r].op \in {"free", "apply", "revoke", "add", "remove", "join"}

ProvInit ==
    /\ users = [s \in Subjects |-> Absent]
    /\ groups = [g \in Groups |-> Absent]
    /\ policies = [s \in Subjects |-> {}]
    /\ req = [r \in Requests |-> Free]
    /\ given = [s \in Subjects |-> {}]
    /\ drift = {}

----------------------------------------------------------------------------
(* Reading a role *)

HigherPrivilegeRole(roles) == Max(roles)

ResolveRoleFromGroups(s) ==
    LET hit == {i \in DOMAIN Mappings :
                    users[s] # Absent /\ Mappings[i].matches \cap users[s] # {}}
    IN  IF hit = {} THEN Absent ELSE HigherPrivilegeRole({Mappings[i].role : i \in hit})

(* The policy of a mapping whose project is not found is tenant-wide.         *)
Scoped(i) == Mappings[i].project = "known"

(* The first project-scoped policy wins, else the last tenant-wide one, else *)
(* the mappings of the user's groups, else Reader.                            *)
ResolveRole(s, inProject) ==
    LET scoped == {i \in policies[s] : inProject /\ Scoped(i)}
        wide   == {i \in policies[s] : ~Scoped(i)}
        group  == ResolveRoleFromGroups(s)
    IN  CASE scoped # {} -> Mappings[Min(scoped)].role
          [] scoped = {} /\ wide # {} -> Mappings[Max(wide)].role
          [] scoped = {} /\ wide = {} /\ group # Absent -> group
          [] OTHER -> Reader

----------------------------------------------------------------------------
(* Bookkeeping of the ghosts *)

InFlight(s) == {r \in Requests : req[r].op # "free" /\ s \in req[r].about}
Pending(op, s, gs) == [op |-> op, about |-> {s}, gs |-> gs, clean |-> InFlight(s) = {}]
Begin(r, s, pending) ==
    req' = [q \in Requests |-> IF q = r THEN pending
                               ELSE IF q \in InFlight(s) THEN [req[q] EXCEPT !.clean = FALSE]
                               ELSE req[q]]
Names(s, gs) == given' = [given EXCEPT ![s] = @ \cup gs]

(* Another lock's holder changes s behind the requests in flight on it.       *)
Disturb(S) ==
    /\ drift' = drift \cup S
    /\ req' = [q \in Requests |-> IF req[q].op # "free" /\ req[q].about \cap S # {}
                                  THEN [req[q] EXCEPT !.clean = FALSE] ELSE req[q]]

GroupsLocked == \E r \in Requests : req[r].op \in {"add", "remove"}

----------------------------------------------------------------------------
(* SCIM users: the record under the users lock, the policies under theirs     *)

ScimCreateUser(r, s, gs) ==
    /\ req[r] = Free
    /\ users' = [users EXCEPT ![s] = gs]
    /\ Begin(r, s, Pending("apply", s, gs))
    /\ Names(s, gs)
    /\ UNCHANGED <<groups, policies, drift>>

ScimReplaceUser(r, s, gs, active) ==
    /\ req[r] = Free
    /\ IF ~active /\ AutoDeactivate
       THEN /\ users' = [users EXCEPT ![s] = Absent]
            /\ Begin(r, s, Pending("revoke", s, {}))
            /\ UNCHANGED given
       ELSE /\ users' = [users EXCEPT ![s] = gs]
            /\ Begin(r, s, Pending("apply", s, gs))
            /\ Names(s, gs)
    /\ UNCHANGED <<groups, policies, drift>>

(* PATCH active=false *)
ScimPatchUser(r, s) ==
    /\ req[r] = Free
    /\ users' = [users EXCEPT ![s] = Absent]
    /\ Begin(r, s, Pending("revoke", s, {}))
    /\ UNCHANGED <<groups, policies, given, drift>>

ScimDeleteUser(r, s) ==
    /\ req[r] = Free
    /\ users' = [users EXCEPT ![s] = Absent]
    /\ Begin(r, s, Pending("revoke", s, {}))
    /\ UNCHANGED <<groups, policies, given, drift>>

(* Both forms drop every policy of the subject first; a mapping whose tenant  *)
(* is not found makes none.                                                   *)
ApplyGroupPolicies(s, gs) ==
    policies' = [policies EXCEPT ![s] =
                    {i \in DOMAIN Mappings : Mappings[i].tenant /\ Mappings[i].grants \cap gs # {}}]

Settle(r, s) ==
    /\ req' = [req EXCEPT ![r] = Free]
    /\ drift' = IF req[r].clean THEN drift \ {s} ELSE drift \cup {s}

FinishApply(r) ==
    /\ req[r].op = "apply"
    /\ \E s \in req[r].about : ApplyGroupPolicies(s, req[r].gs) /\ Settle(r, s)
    /\ UNCHANGED <<users, groups, given>>

RevokeNothing(r) ==
    /\ req[r].op = "revoke"
    /\ \E s \in req[r].about :
        /\ Settle(r, s)
        /\ given' = IF req[r].clean /\ users[s] = Absent
                    THEN [given EXCEPT ![s] = {}] ELSE given
    /\ UNCHANGED <<users, groups, policies>>

FinishRevoke(r) ==
    /\ req[r].op = "revoke"
    /\ \E s \in req[r].about :
        /\ policies' = [policies EXCEPT ![s] = {}]
        /\ Settle(r, s)
        /\ given' = IF req[r].clean /\ users[s] = Absent
                    THEN [given EXCEPT ![s] = {}] ELSE given
    /\ UNCHANGED <<users, groups>>

----------------------------------------------------------------------------
(* SCIM groups *)

(* Each member's record is changed under a lock of its own; no policy is.     *)
ScimCreateGroup(r, g, ms) ==
    /\ req[r] = Free
    /\ req' = [req EXCEPT ![r] = [op |-> "join", about |-> ms, g |-> g, ms |-> ms, clean |-> TRUE]]
    /\ UNCHANGED <<users, groups, policies, given, drift>>

JoinMember(r) ==
    /\ req[r].op = "join"
    /\ \E s \in req[r].about :
        LET g == req[r].g
            joins == users[s] # Absent /\ g \notin users[s]
            marked == [q \in Requests |-> IF joins /\ q # r /\ q \in InFlight(s)
                                          THEN [req[q] EXCEPT !.clean = FALSE] ELSE req[q]]
        IN  /\ users' = IF joins THEN [users EXCEPT ![s] = @ \cup {g}] ELSE users
            /\ given' = IF joins THEN [given EXCEPT ![s] = @ \cup {g}] ELSE given
            /\ drift' = IF joins THEN drift \cup {s} ELSE drift
            /\ req' = [marked EXCEPT ![r].about = @ \ {s}]
    /\ UNCHANGED <<groups, policies>>

StoreGroup(r) ==
    /\ req[r].op = "join" /\ req[r].about = {}
    /\ ~GroupsLocked
    /\ groups' = [groups EXCEPT ![req[r].g] = req[r].ms]
    /\ req' = [req EXCEPT ![r] = Free]
    /\ UNCHANGED <<users, policies, given, drift>>

(* PATCH add of one member; one already listed is left alone.                 *)
ScimAddMember(r, g, s) ==
    /\ req[r] = Free
    /\ ~GroupsLocked
    /\ groups[g] # Absent /\ s \notin groups[g]
    /\ IF users[s] # Absent /\ g \notin users[s]
       THEN /\ users' = [users EXCEPT ![s] = @ \cup {g}]
            /\ Begin(r, s, Pending("add", s, users[s] \cup {g}))
            /\ Names(s, {g})
       ELSE UNCHANGED <<users, req, given>>
    /\ groups' = [groups EXCEPT ![g] = @ \cup {s}]
    /\ UNCHANGED <<policies, drift>>

ForgetToApply(r, g, s) ==
    /\ req[r] = Free
    /\ ~GroupsLocked
    /\ groups[g] # Absent
    /\ groups' = [groups EXCEPT ![g] = @ \ {s}]
    /\ users' = IF users[s] # Absent THEN [users EXCEPT ![s] = @ \ {g}] ELSE users
    /\ UNCHANGED <<policies, given, drift, req>>

ScimRemoveMember(r, g, s) ==
    /\ req[r] = Free
    /\ ~GroupsLocked
    /\ groups[g] # Absent
    /\ groups' = [groups EXCEPT ![g] = @ \ {s}]
    /\ IF users[s] # Absent
       THEN /\ users' = [users EXCEPT ![s] = @ \ {g}]
            /\ Begin(r, s, Pending("remove", s, users[s] \ {g}))
       ELSE UNCHANGED <<users, req>>
    /\ UNCHANGED <<policies, given, drift>>

(* The policies of the member, still under the group lock.                    *)
FinishPatchGroup(r) ==
    /\ req[r].op \in {"add", "remove"}
    /\ \E s \in req[r].about : ApplyGroupPolicies(s, req[r].gs) /\ Settle(r, s)
    /\ UNCHANGED <<users, groups, given>>

(* PATCH replace changes the member list and nobody's record.                 *)
ScimReplaceMembers(g, ms) ==
    /\ ~GroupsLocked
    /\ groups[g] # Absent
    /\ groups' = [groups EXCEPT ![g] = ms]
    /\ UNCHANGED <<users, policies, req, given, drift>>

ScimDeleteGroup(g) ==
    /\ ~GroupsLocked
    /\ groups[g] # Absent
    /\ groups' = [groups EXCEPT ![g] = Absent]
    /\ users' = [s \in Subjects |-> IF users[s] = Absent THEN Absent ELSE users[s] \ {g}]
    /\ Disturb({s \in Subjects : users[s] # Absent /\ g \in users[s]})
    /\ UNCHANGED <<policies, given>>

----------------------------------------------------------------------------
(* Logins *)

(* Every login overwrites the groups of the record with the ones it brings.   *)
ProvisionUser(s, gs) ==
    IF users[s] # Absent \/ AutoProvision
    THEN /\ users' = [users EXCEPT ![s] = gs]
         /\ Names(s, gs)
         /\ Disturb(IF users[s] = gs THEN {} ELSE {s})
    ELSE UNCHANGED <<users, given, req, drift>>

(* post_token authenticates an identity token and brings no groups.           *)
PostToken(s) ==
    /\ ProvisionUser(s, {})
    /\ UNCHANGED <<groups, policies>>

(* oidc_callback brings the groups of the id_token.                           *)
OidcLogin(s, gs) ==
    /\ ProvisionUser(s, gs)
    /\ UNCHANGED <<groups, policies>>

ProvNext ==
    \/ \E r \in Requests, s \in Subjects :
        \/ \E gs \in SUBSET Groups : ScimCreateUser(r, s, gs)
        \/ \E gs \in SUBSET Groups, active \in BOOLEAN : ScimReplaceUser(r, s, gs, active)
        \/ ScimPatchUser(r, s)
        \/ ScimDeleteUser(r, s)
        \/ \E g \in Groups : ScimAddMember(r, g, s) \/ ScimRemoveMember(r, g, s)
    \/ \E r \in Requests :
        \/ FinishApply(r) \/ FinishRevoke(r) \/ FinishPatchGroup(r)
        \/ JoinMember(r) \/ StoreGroup(r)
        \/ \E g \in Groups, ms \in SUBSET Subjects : ScimCreateGroup(r, g, ms)
    \/ \E g \in Groups :
        \/ ScimDeleteGroup(g)
        \/ \E ms \in SUBSET Subjects : ScimReplaceMembers(g, ms)
    \/ \E s \in Subjects : PostToken(s) \/ \E gs \in SUBSET Groups : OidcLogin(s, gs)

ProvSpec == ProvInit /\ [][ProvNext]_pvars

----------------------------------------------------------------------------
(* Whatever order the requests take their locks in, the role resolve_role     *)
(* gives a subject is Reader or the role of a mapping for a group that an     *)
(* identity provider named for that subject after its last offboarding: a     *)
(* DELETE, a PATCH or a PUT with active=false that nothing overlapped leaves  *)
(* no grant behind.                                                           *)
RoleIsJustified ==
    \A s \in Subjects, inProject \in BOOLEAN :
        \/ ResolveRole(s, inProject) = Reader
        \/ \E i \in DOMAIN Mappings :
            /\ Mappings[i].role = ResolveRole(s, inProject)
            /\ (Mappings[i].grants \cup Mappings[i].matches) \cap given[s] # {}

(* User requests and group PATCHes that do not overlap leave the policies of  *)
(* a subject equal to what its current groups grant, and none for a subject   *)
(* that was removed.  The ghost drift names the rest: a group POST or DELETE  *)
(* and a login change the groups and recompute nothing.                       *)
PoliciesMatchGroups ==
    \A s \in Subjects : (InFlight(s) = {} /\ s \notin drift) =>
        policies[s] = IF users[s] = Absent THEN {}
                      ELSE {i \in DOMAIN Mappings :
                                Mappings[i].tenant /\ Mappings[i].grants \cap users[s] # {}}
=============================================================================
