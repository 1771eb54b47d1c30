---------------------------- MODULE Memberships ----------------------------
(***************************************************************************)
(* The members of one organisation, their roles in it and in one of its    *)
(* projects, the invitations by which they come and the API keys they make *)
(* (src/identity-store.js, src/identity-routes.js, src/rbac.js).  A request *)
(* with a body is authorised before its body arrives, and carried out with *)
(* the permissions of then.                                                *)
(***************************************************************************)
EXTENDS Nullable

CONSTANTS
    People,       \* those with an email address
    Invitations,  \* invitations that may be sent
    ApiKeys       \* keys that may be made

ASSUME MembershipAssumption == NULL \notin People

\* Of the roles of an organisation those that differ in what is modelled, and
\* likewise of a project.
OrganizationRoles == {"owner", "admin", "viewer"}
ProjectRoles == {"project_manager", "contributor"}
MembershipStatuses == {"active", "suspended"}

VARIABLES
    accounts,     \* people with an account; none is ever disabled
    members,      \* members[u]: NoMember, or role and status
    projectRoles, \* projectRoles[u]: the role in the project, or NULL
    invitations,  \* invitations[i]: NoInvitation, or the row
    apiKeys,      \* apiKeys[k]: NoKey, or who made it and what it may do
    archived,     \* the organisation is archived
    awaiting      \* requests whose body has not arrived

memberVars == <<accounts, members, projectRoles, invitations, apiKeys, archived,
                awaiting>>

NoMember == [role |-> NULL, status |-> "none"]
\* An invitation that was accepted, was revoked or has expired is of no further
\* use, like one that was not sent.
NoInvitation == [email |-> NULL, role |-> NULL, project |-> NULL]
NoKey == [by |-> NULL, permissions |-> {}]

\* An organisation starts without members, or with the one who created it.
MemberInit ==
    /\ members \in {[u \in People |-> NoMember]} \cup
           {[u \in People |-> IF u = founder THEN [role |-> "owner", status |-> "active"]
                              ELSE NoMember] : founder \in People}
    /\ accounts = {u \in People : members[u] # NoMember}
    /\ projectRoles = [u \in People |-> NULL]
    /\ invitations = [i \in Invitations |-> NoInvitation]
    /\ apiKeys = [k \in ApiKeys |-> NoKey]
    /\ archived = FALSE
    /\ awaiting = {}

-----------------------------------------------------------------------------
(* Who may do what.                                                        *)

KeyPermissions == {"organization.read", "organization.manage"}

OrganizationPermissions ==
    [owner |-> KeyPermissions \cup {"members.manage", "project_members.manage",
                                    "ownership.manage"},
     admin |-> KeyPermissions \cup {"members.manage", "project_members.manage"},
     viewer |-> {"organization.read"}]

\* organizationAuthorization and projectAuthorization.
PermissionsOf(u) ==
    IF members[u].status # "active" \/ archived THEN {}
    ELSE OrganizationPermissions[members[u].role] \cup
         (IF projectRoles[u] = "project_manager" THEN {"project_members.manage"}
                                                 ELSE {})

\* authorizeOrganization and authorizeProject, with the body still to come.
Authorize(u) ==
    /\ PermissionsOf(u) \ {"organization.read"} # {}
    /\ awaiting' = awaiting \cup {[by |-> u, permissions |-> PermissionsOf(u)]}
    /\ UNCHANGED <<accounts, members, projectRoles, invitations, apiKeys, archived>>

\* The body of a request arrives that was allowed to have this permission;
\* only an owner may give or take the role of an owner.
Arrives(q, permission, roles) ==
    /\ q \in awaiting /\ permission \in q.permissions
    /\ "owner" \in roles => "ownership.manage" \in q.permissions
    /\ awaiting' = awaiting \ {q}

\* A request without a body.
MayNow(u, permission, roles) ==
    /\ permission \in PermissionsOf(u)
    /\ "owner" \in roles => "ownership.manage" \in PermissionsOf(u)
    /\ UNCHANGED awaiting

ActiveOwners(rows) ==
    {u \in People : rows[u] = [role |-> "owner", status |-> "active"]}
HasOwner == ActiveOwners(members) # {}

-----------------------------------------------------------------------------
(* The first owner.                                                        *)

Setup == [by |-> NULL, permissions |-> {}]

\* routeBootstrapApi, with the session of the old administrator.
BootstrapRequested ==
    /\ ~HasOwner
    /\ awaiting' = awaiting \cup {Setup}
    /\ UNCHANGED <<accounts, members, projectRoles, invitations, apiKeys, archived>>

\* bootstrapOwner: whoever comes second changes nothing.  Setup stands for any
\* number of such requests.
BootstrapOwner(u) ==
    /\ Setup \in awaiting
    /\ awaiting' \in {awaiting, awaiting \ {Setup}}
    /\ IF HasOwner THEN UNCHANGED <<accounts, members>>
       ELSE /\ accounts' = accounts \cup {u}
            /\ members' = [members EXCEPT ![u] =
                   [role |-> "owner", status |-> "active"]]
    /\ UNCHANGED <<projectRoles, invitations, apiKeys, archived>>

-----------------------------------------------------------------------------
(* Invitations.                                                            *)

\* Mutant: the earlier invitations to the same address stay open.
OthersStay(i, email) == invitations
OthersRevoked(i, email) ==
    [j \in Invitations |->
        IF j # i /\ invitations[j].email = email THEN NoInvitation ELSE invitations[j]]

\* With a project the role is one of the project, and the organisation only
\* gets a viewer.
CreateInvitation(q, i, email, role, project) ==
    /\ Arrives(q, "members.manage", {role})
    /\ ~archived
    /\ invitations[i] = NoInvitation
    /\ invitations' = [OthersRevoked(i, email) EXCEPT ![i] =
           [email |-> email, role |-> role, project |-> project]]
    /\ UNCHANGED <<accounts, members, projectRoles, apiKeys, archived>>

InvitationExpires(i) ==
    /\ invitations[i] # NoInvitation
    /\ invitations' = [invitations EXCEPT ![i] = NoInvitation]
    /\ UNCHANGED <<accounts, members, projectRoles, apiKeys, archived, awaiting>>

RevokeInvitation(by, i) ==
    /\ MayNow(by, "members.manage", {invitations[i].role})
    /\ invitations[i] # NoInvitation
    /\ invitations' = [invitations EXCEPT ![i] = NoInvitation]
    /\ UNCHANGED <<accounts, members, projectRoles, apiKeys, archived>>

\* Who is an active member keeps the role; who was suspended comes back.
AcceptInvitation(i) ==
    LET row == invitations[i]
        u == row.email
    IN  /\ row # NoInvitation
        /\ ~archived
        /\ accounts' = accounts \cup {u}
        /\ members' = [members EXCEPT ![u] =
               [role |-> IF @.status = "active" THEN @.role ELSE row.role,
                status |-> "active"]]
        /\ projectRoles' = IF row.project = NULL THEN projectRoles
                           ELSE [projectRoles EXCEPT ![u] = row.project]
        /\ invitations' = [OthersRevoked(i, u) EXCEPT ![i] = NoInvitation]
        /\ UNCHANGED <<apiKeys, archived, awaiting>>

-----------------------------------------------------------------------------
(* Members.                                                                *)

\* Mutant: an owner who is suspended is counted as one.
AnyOwners(rows) == {u \in People : rows[u].role = "owner"}
Counted(rows) == ActiveOwners(rows)

\* assertNotLastOwner, before u becomes row.
NotLastOwner(u, row) ==
    u \in ActiveOwners(members) /\ row # members[u] =>
        Cardinality(Counted(members)) > 1

CreateMembership(q, u, row) ==
    /\ Arrives(q, "members.manage", {row.role})
    /\ ~archived
    /\ u \in accounts /\ members[u] = NoMember
    /\ members' = [members EXCEPT ![u] = row]
    /\ UNCHANGED <<accounts, projectRoles, invitations, apiKeys, archived>>

UpdateMembership(q, u, row) ==
    /\ Arrives(q, "members.manage", {members[u].role, row.role})
    /\ members[u] # NoMember
    /\ NotLastOwner(u, row)
    /\ members' = [members EXCEPT ![u] = row]
    /\ UNCHANGED <<accounts, projectRoles, invitations, apiKeys, archived>>

DeleteMembership(by, u) ==
    /\ MayNow(by, "members.manage", {members[u].role})
    /\ members[u] # NoMember
    /\ NotLastOwner(u, NoMember)
    /\ members' = [members EXCEPT ![u] = NoMember]
    /\ projectRoles' = [projectRoles EXCEPT ![u] = NULL]
    /\ UNCHANGED <<accounts, invitations, apiKeys, archived>>

UpsertProjectMembership(q, u, role) ==
    /\ Arrives(q, "project_members.manage", {})
    /\ members[u].status = "active"
    /\ projectRoles' = [projectRoles EXCEPT ![u] = role]
    /\ UNCHANGED <<accounts, members, invitations, apiKeys, archived>>

DeleteProjectMembership(by, u) ==
    /\ MayNow(by, "project_members.manage", {})
    /\ projectRoles[u] # NULL
    /\ projectRoles' = [projectRoles EXCEPT ![u] = NULL]
    /\ UNCHANGED <<accounts, members, invitations, apiKeys, archived>>

ArchiveOrganization(by) ==
    /\ MayNow(by, "ownership.manage", {})
    /\ archived' = TRUE
    /\ UNCHANGED <<accounts, members, projectRoles, invitations, apiKeys>>

-----------------------------------------------------------------------------
(* API keys.                                                               *)

\* createApiKey, with no more than the request was allowed.
CreateApiKey(q, k, permissions) ==
    /\ Arrives(q, "organization.manage", {})
    /\ apiKeys[k] = NoKey
    /\ permissions # {} /\ permissions \subseteq q.permissions \cap KeyPermissions
    /\ apiKeys' = [apiKeys EXCEPT ![k] = [by |-> q.by, permissions |-> permissions]]
    /\ UNCHANGED <<accounts, members, projectRoles, invitations, archived>>

\* Also stands for a key that expires.
RevokeApiKey(by, k) ==
    /\ MayNow(by, "organization.manage", {})
    /\ apiKeys[k] # NoKey
    /\ apiKeys' = [apiKeys EXCEPT ![k] = NoKey]
    /\ UNCHANGED <<accounts, members, projectRoles, invitations, archived>>

\* Mutant: a key may do what it was made for, as long as its maker is a member.
AsConfigured(k) ==
    IF apiKeys[k] = NoKey \/ members[apiKeys[k].by].status # "active" \/ archived
    THEN {} ELSE apiKeys[k].permissions
\* apiKeyAuthorization.
KeyMay(k) ==
    IF apiKeys[k] = NoKey THEN {}
    ELSE apiKeys[k].permissions \cap PermissionsOf(apiKeys[k].by)

MemberNext ==
    \/ BootstrapRequested
    \/ \E u \in People :
          \/ Authorize(u) \/ BootstrapOwner(u) \/ ArchiveOrganization(u)
          \/ \E v \in People : DeleteMembership(u, v) \/ DeleteProjectMembership(u, v)
          \/ \E i \in Invitations : RevokeInvitation(u, i)
          \/ \E k \in ApiKeys : RevokeApiKey(u, k)
    \/ \E i \in Invitations : InvitationExpires(i) \/ AcceptInvitation(i)
    \/ \E q \in awaiting, u \in People :
          \/ \E role \in OrganizationRoles, status \in MembershipStatuses :
                LET row == [role |-> role, status |-> status]
                IN  CreateMembership(q, u, row) \/ UpdateMembership(q, u, row)
          \/ \E i \in Invitations :
                \/ \E role \in OrganizationRoles : CreateInvitation(q, i, u, role, NULL)
                \/ \E role \in ProjectRoles : CreateInvitation(q, i, u, "viewer", role)
          \/ \E role \in ProjectRoles : UpsertProjectMembership(q, u, role)
    \/ \E q \in awaiting, k \in ApiKeys, permissions \in SUBSET KeyPermissions :
          CreateApiKey(q, k, permissions)

MemberSpec == MemberInit /\ [][MemberNext]_memberVars

-----------------------------------------------------------------------------
(* Properties.                                                             *)

\* assertNotLastOwner: whichever operations owners and administrators carry
\* out at once, with permissions they no longer have, an organisation that has
\* an active owner goes on having one, and setting it up has no further effect.
OwnerStays ==
    [][HasOwner => /\ HasOwner'
                   /\ (Setup \in awaiting /\ Setup \notin awaiting') => members' = members
      ]_memberVars

\* A project is open to members only, no address has two invitations that are
\* still open, and no key does more than who made it may do now.
AccessSound ==
    /\ \A u \in People : projectRoles[u] # NULL => members[u] # NoMember
    /\ \A i, j \in Invitations :
          invitations[i] # NoInvitation /\ invitations[i].email = invitations[j].email
              => i = j
    /\ \A k \in ApiKeys :
          KeyMay(k) # {} => KeyMay(k) \subseteq PermissionsOf(apiKeys[k].by)
=============================================================================
