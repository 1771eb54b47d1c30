---------------------------- MODULE Credentials ----------------------------
(***************************************************************************)
(* The password, the sessions, the reset links and the second factor of    *)
(* one user (src/identity-store.js, src/identity-routes.js, src/totp.js).  *)
(* A request of a session with a body is carried out when its body has     *)
(* come, whatever has become of the session by then.                       *)
(***************************************************************************)
EXTENDS Integers, FiniteSets

CONSTANTS
    Sessions,     \* sessions that may be open at once
    ResetLinks,   \* reset links that may be sent
    BackupCodes,  \* codes of one series
    MaxPasswords, \* bound on the passwords
    MaxSeries,    \* bound on the secrets, and on the series of backup codes
    MaxClock      \* bound on the periods of codes

ASSUME CredentialsAssumption ==
    MaxPasswords \in Nat /\ MaxSeries \in Nat /\ MaxClock \in Nat

VARIABLES
    password,   \* number of the password
    sessions,   \* sessions[s]: NoSession, or the password and factor behind it
    inFlight,   \* sessions that have a request whose body has not come
    resetLinks, \* resetLinks[t]: NoLink, or the number of the password it is for
    factor,     \* the second factor
    backup,     \* the backup codes that are unused, of the last series
    clock,      \* period of the codes an authenticator shows
    spent,      \* codes that have been accepted
    spentTwice  \* one of them again

credentialVars == <<password, sessions, inFlight, resetLinks, factor, backup,
                    clock, spent, spentTwice>>

\* A session that is revoked or expired is gone from the table.
NoSession == [password |-> 0, verified |-> FALSE]
\* A reset link that was used, is void or has expired is like one not sent.
NoLink == 0

CredentialInit ==
    /\ password = 1
    /\ sessions = [s \in Sessions |-> NoSession]
    /\ inFlight = {}
    /\ resetLinks = [t \in ResetLinks |-> NoLink]
    /\ factor = [status |-> "off", secret |-> 0, last |-> -1]
    /\ backup = [series |-> 0, unused |-> {}]
    /\ clock = 0
    /\ spent = {}
    /\ spentTwice = FALSE

Live(s) == sessions[s] # NoSession
Off == [factor EXCEPT !.status = "off", !.last = -1]

-----------------------------------------------------------------------------
(* The second factor.                                                      *)

Factors == [kind : {"totp"}, code : 0 .. MaxClock + 1]
               \cup [kind : {"backup"}, code : BackupCodes]

\* Mutant: a code is good for as long as it is shown.
Shown(c, last) == c \in clock - 1 .. clock + 1
\* verifyTotpCode.
Fresh(c, last) == c \in clock - 1 .. clock + 1 /\ c > last

\* Records that this code of this secret or series has been accepted.
Spend(kind, series, code) ==
    LET it == <<kind, series, code>>
    IN  spent' = spent \cup {it} /\ spentTwice' = (spentTwice \/ it \in spent)

\* verifySecondFactor.
Verified(f) ==
    /\ factor.status = "on"
    /\ \/ /\ f.kind = "totp"
          /\ Fresh(f.code, factor.last)
          /\ Spend("totp", factor.secret, f.code)
       \/ /\ f.kind = "backup"
          /\ f.code \in backup.unused
          /\ Spend("backup", backup.series, f.code)

AfterFactor(f) ==
    IF f.kind = "totp" THEN [factor EXCEPT !.last = f.code] ELSE factor
AfterBackup(f) ==
    IF f.kind = "backup" THEN [backup EXCEPT !.unused = @ \ {f.code}] ELSE backup

Arrived(s) == s \in inFlight /\ inFlight' = inFlight \ {s}

\* beginTotpEnrollment.
BeginTotpEnrollment(s) ==
    /\ Arrived(s)
    /\ factor.status # "on"
    /\ factor.secret < MaxSeries
    /\ factor' = [status |-> "pending", secret |-> factor.secret + 1, last |-> -1]
    /\ UNCHANGED <<password, sessions, resetLinks, backup, clock, spent, spentTwice>>

\* The enrollment was not confirmed in time.
EnrollmentExpires ==
    /\ factor.status = "pending"
    /\ factor' = Off
    /\ UNCHANGED <<password, sessions, inFlight, resetLinks, backup, clock, spent,
                   spentTwice>>

NewSeries == [series |-> backup.series + 1, unused |-> BackupCodes]

\* Mutant: the other sessions stay open.
AllVerified(s) == [x \in Sessions |-> IF x = s /\ Live(s)
                      THEN [sessions[x] EXCEPT !.verified = TRUE] ELSE sessions[x]]
\* The session that confirms is marked, when it is still there; others end.
OnlyVerified(s) ==
    [x \in Sessions |-> IF x = s /\ Live(s)
                        THEN [sessions[x] EXCEPT !.verified = TRUE] ELSE NoSession]

ConfirmTotpEnrollment(s, c) ==
    /\ Arrived(s)
    /\ factor.status = "pending"
    /\ Fresh(c, -1)
    /\ Spend("totp", factor.secret, c)
    /\ factor' = [factor EXCEPT !.status = "on", !.last = c]
    /\ backup' = NewSeries
    /\ sessions' = OnlyVerified(s)
    /\ UNCHANGED <<password, resetLinks, clock>>

\* The same step that uses a code makes new ones.
RegenerateBackupCodes(s, f) ==
    /\ Arrived(s)
    /\ backup.series < MaxSeries
    /\ Verified(f)
    /\ factor' = AfterFactor(f)
    /\ backup' = NewSeries
    /\ UNCHANGED <<password, sessions, resetLinks, clock>>

DisableMfa(s, f) ==
    /\ Arrived(s)
    /\ Verified(f)
    /\ factor' = Off
    /\ backup' = [backup EXCEPT !.unused = {}]
    /\ sessions' = [x \in Sessions |-> NoSession]
    /\ UNCHANGED <<password, resetLinks, clock>>

-----------------------------------------------------------------------------
(* Sessions.                                                               *)

\* createSession: what its row remembers of the moment of the login.
NewSession == [password |-> password, verified |-> factor.status = "on"]

\* authenticatePassword, verifySecondFactor and createSession, in one go.
Login(s, f) ==
    /\ ~Live(s) /\ s \notin inFlight
    /\ IF factor.status = "on"
       THEN Verified(f) /\ factor' = AfterFactor(f) /\ backup' = AfterBackup(f)
       ELSE UNCHANGED <<factor, backup, spent, spentTwice>>
    /\ sessions' = [sessions EXCEPT ![s] = NewSession]
    /\ UNCHANGED <<password, inFlight, resetLinks, clock>>

\* readIdentitySession.
Request(s) ==
    /\ Live(s)
    /\ inFlight' = inFlight \cup {s}
    /\ UNCHANGED <<password, sessions, resetLinks, factor, backup, clock, spent,
                   spentTwice>>

\* A body that is refused.
RequestFails(s) ==
    /\ Arrived(s)
    /\ UNCHANGED <<password, sessions, resetLinks, factor, backup, clock, spent,
                   spentTwice>>

\* revokeSession and revokeAllSessions; a session that expires.
Ended(gone) ==
    /\ sessions' = [s \in Sessions |-> IF s \in gone THEN NoSession ELSE sessions[s]]
    /\ UNCHANGED <<password, inFlight, resetLinks, factor, backup, clock, spent,
                   spentTwice>>

RevokeSession(s) == Live(s) /\ Ended({s})
RevokeAllSessions(s) == Live(s) /\ Ended(Sessions)

-----------------------------------------------------------------------------
(* The password.                                                           *)

\* Mutant: the links sent before are still good.
LinksStay(links) == links
LinksVoid(links) == [t \in ResetLinks |-> NoLink]

\* The session that changes it is kept, if it is still there.
ChangePassword(s) ==
    /\ Arrived(s)
    /\ password < MaxPasswords
    /\ password' = password + 1
    /\ sessions' = [x \in Sessions |-> IF x = s /\ Live(s)
           THEN [sessions[x] EXCEPT !.password = password'] ELSE NoSession]
    /\ resetLinks' = LinksVoid(resetLinks)
    /\ UNCHANGED <<factor, backup, clock, spent, spentTwice>>

RequestPasswordReset(t) ==
    /\ resetLinks[t] = NoLink
    /\ resetLinks' = [LinksVoid(resetLinks) EXCEPT ![t] = password]
    /\ UNCHANGED <<password, sessions, inFlight, factor, backup, clock, spent,
                   spentTwice>>

ResetLinkExpires(t) ==
    /\ resetLinks[t] # NoLink
    /\ resetLinks' = [resetLinks EXCEPT ![t] = NoLink]
    /\ UNCHANGED <<password, sessions, inFlight, factor, backup, clock, spent,
                   spentTwice>>

\* The second factor is not asked for, and stays.
CompletePasswordReset(t) ==
    /\ password < MaxPasswords
    /\ resetLinks[t] # NoLink
    /\ password' = password + 1
    /\ resetLinks' = LinksVoid(resetLinks)
    /\ sessions' = [s \in Sessions |-> NoSession]
    /\ UNCHANGED <<inFlight, factor, backup, clock, spent, spentTwice>>

TimePasses ==
    /\ clock < MaxClock
    /\ clock' = clock + 1
    /\ UNCHANGED <<password, sessions, inFlight, resetLinks, factor, backup, spent,
                   spentTwice>>

CredentialNext ==
    \/ \E s \in Sessions :
          \/ Request(s) \/ RequestFails(s) \/ RevokeSession(s) \/ RevokeAllSessions(s)
          \/ ChangePassword(s) \/ BeginTotpEnrollment(s)
          \/ \E c \in 0 .. MaxClock + 1 : ConfirmTotpEnrollment(s, c)
          \/ \E f \in Factors :
                Login(s, f) \/ RegenerateBackupCodes(s, f) \/ DisableMfa(s, f)
    \/ \E t \in ResetLinks :
          RequestPasswordReset(t) \/ ResetLinkExpires(t) \/ CompletePasswordReset(t)
    \/ EnrollmentExpires
    \/ TimePasses

CredentialSpec == CredentialInit /\ [][CredentialNext]_credentialVars

-----------------------------------------------------------------------------
(* Properties.                                                             *)

\* Whatever requests are under way, who is in came in by the password of now
\* or has changed it to that, and by the second factor if there is one; and no
\* code, of whatever secret or series, has been accepted twice.
WayInIsCurrent ==
    /\ \A s \in Sessions : Live(s) =>
          /\ sessions[s].password = password
          /\ factor.status = "on" => sessions[s].verified
    /\ ~spentTwice

\* completePasswordReset: a link is good only under the password it was sent
\* under, and only the one that was sent last.
OneResetLink ==
    \A t, u \in ResetLinks :
        resetLinks[t] # NoLink /\ resetLinks[u] # NoLink =>
            t = u /\ resetLinks[t] = password

\* Every way in that is kept - a session, a code, a link - is worth what it
\* was worth when it was given out.
CredentialsSound == WayInIsCurrent /\ OneResetLink
=============================================================================
