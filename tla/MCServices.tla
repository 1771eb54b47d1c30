----------------------------- MODULE MCServices -----------------------------
(* The services around the books: parts that share no state, explored one at *)
(* a time.                                                                   *)
EXTENDS Memberships, Credentials, Documents, Hub, AuditChain, RateLimiter,
        SseBroker, DatabaseFile, TLC

VARIABLE part

\* The parts share no state, and so they can share the names of what they are
\* about: permuting those of two kinds makes a group that is small.
Symmetric == Permutations(People) \cup Permutations(Invitations)

ServicesInit ==
    /\ part \in {"members", "credentials", "documents", "hub", "audit", "limiter",
                 "sse", "file"}
    /\ MemberInit /\ CredentialInit /\ DocumentInit /\ HubInit /\ AuditInit
    /\ LimiterInit /\ SseInit /\ FileInit
    \* What only one part looks at starts in one way in the others.
    /\ part # "members" => accounts = {}
    /\ part # "file" => release = 1

\* Bound: two requests wait for their bodies, or there is an API key, or there
\* are invitations; one person has a role in the project.  Once the organisation
\* is archived nobody has, and one request waits.
MembersFocused ==
    /\ Cardinality({u \in People : projectRoles[u] # NULL}) <= 1
    /\ Cardinality(awaiting) <= 2
    /\ archived => Cardinality(awaiting) <= 1 /\ projectRoles = [u \in People |-> NULL]
    /\ Cardinality({i \in 1 .. 3 :
          CASE i = 1 -> Cardinality(awaiting) = 2
            [] i = 2 -> \E k \in ApiKeys : apiKeys[k] # NoKey
            [] i = 3 -> \E i2 \in Invitations : invitations[i2] # NoInvitation}) <= 1

\* Bound: reset links are sent while the clock stands.
CredentialsFocused ==
    (\E t \in ResetLinks : resetLinks[t] # NoLink) => clock = 0

\* Bound: documents are archived, or rested upon, one kind at a time.
DocumentsFocused ==
    Cardinality(
        {i \in 1 .. 3 :
            CASE i = 1 -> \E d \in Files : versions[d] # <<>>
              [] i = 2 -> \E c \in Contracts : contracts[c].status = "awaiting_signatures"
              [] i = 3 -> \E k \in ValuationKeys : valuations[k] # NULL}) <= 1

\* Bound: reading and connecting are looked at one at a time; one listing
\* is to close, or is not published.
HubFocused ==
    /\ reader # FirstPage => ~shownProject.archived
    /\ Cardinality({l \in Listings : listings[l].closesAt # NULL})
         + Cardinality({l \in Listings : listings[l].status = "draft"}) <= 1
    /\ connections # [k \in Services |-> NoConnection] =>
          listings = [l \in Listings |-> NoListing] /\ now = 0

\* Bound: two streams have ended and are waiting for their close events, of one
\* room unless the server is being shut down.
SseFocused ==
    LET late == {r \in Streams : streams[r].due # {}} IN
    /\ Cardinality(late) <= 2
    /\ stopped \/ \A r, s \in late : streams[r].room = streams[s].room

ServicesNext ==
    /\ UNCHANGED part
    /\ \/ /\ part = "members" /\ MemberNext /\ MembersFocused'
          /\ UNCHANGED <<credentialVars, documentVars, hubVars, auditVars,
                         limiterVars, sseVars, fileVars>>
       \/ /\ part = "credentials" /\ CredentialNext /\ CredentialsFocused'
          /\ UNCHANGED <<memberVars, documentVars, hubVars, auditVars,
                         limiterVars, sseVars, fileVars>>
       \/ /\ part = "documents" /\ DocumentNext /\ DocumentsFocused'
          /\ UNCHANGED <<memberVars, credentialVars, hubVars, auditVars,
                         limiterVars, sseVars, fileVars>>
       \/ /\ part = "hub" /\ HubNext /\ HubFocused'
          /\ UNCHANGED <<memberVars, credentialVars, documentVars,
                         auditVars, limiterVars, sseVars, fileVars>>
       \/ /\ part = "audit" /\ AuditNext
          /\ UNCHANGED <<memberVars, credentialVars, documentVars, hubVars,
                         limiterVars, sseVars, fileVars>>
       \/ /\ part = "limiter" /\ LimiterNext
          /\ UNCHANGED <<memberVars, credentialVars, documentVars, hubVars,
                         auditVars, sseVars, fileVars>>
       \/ /\ part = "sse" /\ SseNext /\ SseFocused'
          /\ UNCHANGED <<memberVars, credentialVars, documentVars, hubVars,
                         auditVars, limiterVars, fileVars>>
       \/ /\ part = "file" /\ FileNext
          /\ UNCHANGED <<memberVars, credentialVars, documentVars, hubVars,
                         auditVars, limiterVars, sseVars>>

servicesVars == <<part, memberVars, credentialVars, documentVars, hubVars,
                  auditVars, limiterVars, sseVars, fileVars>>

ServicesSpec == ServicesInit /\ [][ServicesNext]_servicesVars

\* The counters of the server that grow with its visitors keep to their limits.
LimitsHold == LessThanTwiceTheLimit /\ RegistryTidy
=============================================================================
