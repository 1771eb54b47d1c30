--------------------------- MODULE ServicesProofs ---------------------------
(***************************************************************************)
(* Proofs about the services around the books, which share no state: the   *)
(* chain of audit events, the credentials of a user, the members of an     *)
(* organisation, contracts, the file of the database, the pages of the     *)
(* marketplace, the limiter of requests and the registry of event streams. *)
(***************************************************************************)
EXTENDS MCServices, SumTheorems

-----------------------------------------------------------------------------
(* The chain of audit events.  While the command holds its transaction no  *)
(* event is appended, so that what it has read is still the last event.    *)

AuditEvent == [previous : Nat, inside : BOOLEAN]

ChainInv ==
    /\ events \in Seq(AuditEvent)
    /\ pending \in Nat \cup {NULL}
    /\ transaction \in {NULL, Len(events)}
    /\ TransactionsChain

LEMMA InsertChains ==
  ASSUME ChainInv, NEW previous \in Nat, NEW inside \in BOOLEAN,
         inside => previous = Len(events),
         events' = Inserted(previous, inside)
  PROVE  events' \in Seq(AuditEvent) /\ TransactionsChain'
<1> DEFINE event == [previous |-> previous, inside |-> inside]
<1>1. event \in AuditEvent
  BY DEF AuditEvent
<1>2. events' = Append(events, event) /\ events \in Seq(AuditEvent)
  BY DEF Inserted, ChainInv
<1> HIDE DEF event
<1>3. /\ events' \in Seq(AuditEvent)
      /\ Len(events') = Len(events) + 1
      /\ \A i \in 1 .. Len(events) : events'[i] = events[i]
      /\ events'[Len(events) + 1] = event
  BY <1>1, <1>2
<1>4. ASSUME NEW i \in DOMAIN events', events'[i].inside
      PROVE  events'[i].previous = i - 1
  <2>1. i \in 1 .. Len(events) + 1 /\ Len(events) \in Nat
    BY <1>2, <1>3
  <2>2. CASE i = Len(events) + 1
    BY <1>3, <1>4, <2>1, <2>2 DEF event
  <2>3. CASE i \in 1 .. Len(events)
    BY <1>2, <1>3, <1>4, <2>3 DEF ChainInv, TransactionsChain, Follows
  <2>4. QED
    BY <2>1, <2>2, <2>3
<1>5. QED
  BY <1>3, <1>4 DEF TransactionsChain, Follows

LEMMA ChainStep ==
  ASSUME ChainInv, [AuditNext]_auditVars
  PROVE  ChainInv'
<1>0. Len(events) \in Nat /\ NULL \notin Nat
  BY ChainAssumption DEF ChainInv
<1>1. CASE ServerAppends
  BY <1>0, <1>1, InsertChains
     DEF ServerAppends, Unlocked, LastHash, ChainInv
<1>2. CASE ServerReads
  BY <1>0, <1>2 DEF ServerReads, LastHash, ChainInv, TransactionsChain, Follows
<1>3. CASE ServerInserts
  BY <1>0, <1>3, InsertChains DEF ServerInserts, Unlocked, ChainInv
<1>4. CASE ServerEnds
  BY <1>4 DEF ServerEnds, ChainInv, TransactionsChain, Follows
<1>5. CASE CommandReads
  BY <1>5 DEF CommandReads, LastHash, ChainInv, TransactionsChain, Follows
<1>6. CASE CommandCommits
  BY <1>0, <1>6, InsertChains DEF CommandCommits, ChainInv
<1>7. CASE CommandEnds
  BY <1>7 DEF CommandEnds, ChainInv, TransactionsChain, Follows
<1>8. CASE UNCHANGED auditVars
  BY <1>8 DEF auditVars, ChainInv, TransactionsChain, Follows
<1>9. QED
  BY <1>1, <1>2, <1>3, <1>4, <1>5, <1>6, <1>7, <1>8 DEF AuditNext

\* Whatever the server and the command do at once, and wherever either is
\* killed, an event appended in a transaction follows the one before it.
THEOREM AuditIsChained == AuditSpec => []TransactionsChain
<1>1. AuditInit => ChainInv
  BY DEF AuditInit, ChainInv, TransactionsChain
<1>2. ChainInv => TransactionsChain
  BY DEF ChainInv
<1>3. QED
  BY <1>1, <1>2, ChainStep, PTL DEF AuditSpec

-----------------------------------------------------------------------------
(* Credentials.  A code that has been spent is behind the second factor of *)
(* now: of an earlier secret, or not newer than the last one accepted; of  *)
(* an earlier series, or no longer among the unused.  A secret that is     *)
(* still to be confirmed has no spent code.                                *)

Session == [password : Nat, verified : BOOLEAN]
Factor == [status : {"off", "pending", "on"}, secret : Nat, last : Int]
Backup == [series : Nat, unused : SUBSET BackupCodes]

CredentialTypeOK ==
    /\ password \in Nat \ {0}
    /\ sessions \in [Sessions -> Session]
    /\ resetLinks \in [ResetLinks -> Nat]
    /\ factor \in Factor
    /\ backup \in Backup
    /\ clock \in Nat
    /\ spent \subseteq ({"totp"} \X Nat \X Int)
                           \cup ({"backup"} \X Nat \X BackupCodes)

TotpBehind(secret, code) ==
    /\ secret <= factor.secret
    /\ secret = factor.secret =>
          /\ factor.status # "pending"
          /\ factor.status = "on" => code <= factor.last

BackupBehind(series, code) ==
    /\ series <= backup.series
    /\ series = backup.series => code \notin backup.unused

SpentIsBehind ==
    \A it \in spent :
        /\ it[1] = "totp" => TotpBehind(it[2], it[3])
        /\ it[1] = "backup" => BackupBehind(it[2], it[3])

WaysIn ==
    \A s \in Sessions : Live(s) =>
        /\ sessions[s].password = password
        /\ factor.status = "on" => sessions[s].verified

CodesInv == SpentIsBehind /\ ~spentTwice

CredentialInv == CredentialTypeOK /\ WaysIn /\ CodesInv /\ OneResetLink

(* Accepting a code that is not behind, and putting it behind.             *)
LEMMA SpendTotp ==
  ASSUME CredentialTypeOK, CodesInv, NEW code \in Int,
         Spend("totp", factor.secret, code),
         factor.status = "pending" \/ (factor.status = "on" /\ code > factor.last)
  PROVE  /\ ~spentTwice'
         /\ spent' = spent \cup {<<"totp", factor.secret, code>>}
         /\ spent' \subseteq ({"totp"} \X Nat \X Int)
                                 \cup ({"backup"} \X Nat \X BackupCodes)
<1> DEFINE it == <<"totp", factor.secret, code>>
<1>1. /\ it[1] = "totp" /\ it[2] = factor.secret /\ it[3] = code
      /\ factor.secret \in Nat /\ factor.last \in Int
  BY DEF CredentialTypeOK, Factor
<1>2. ~ TotpBehind(factor.secret, code)
  BY <1>1 DEF TotpBehind
<1>3. it \notin spent
  BY <1>1, <1>2 DEF CodesInv, SpentIsBehind
<1>4. QED
  BY <1>1, <1>3 DEF Spend, CodesInv, CredentialTypeOK

LEMMA SpendBackup ==
  ASSUME CredentialTypeOK, CodesInv, NEW code \in backup.unused,
         Spend("backup", backup.series, code)
  PROVE  /\ ~spentTwice'
         /\ spent' = spent \cup {<<"backup", backup.series, code>>}
         /\ spent' \subseteq ({"totp"} \X Nat \X Int)
                                 \cup ({"backup"} \X Nat \X BackupCodes)
<1> DEFINE it == <<"backup", backup.series, code>>
<1>1. /\ it[1] = "backup" /\ it[2] = backup.series /\ it[3] = code
      /\ backup.series \in Nat /\ code \in BackupCodes
  BY DEF CredentialTypeOK, Backup
<1>2. ~ BackupBehind(backup.series, code)
  BY <1>1 DEF BackupBehind
<1>3. it \notin spent
  BY <1>1, <1>2 DEF CodesInv, SpentIsBehind
<1>4. QED
  BY <1>1, <1>3 DEF Spend, CodesInv, CredentialTypeOK

LEMMA OffIsOff ==
  ASSUME factor \in Factor
  PROVE  Off \in Factor /\ Off.status = "off" /\ Off.secret = factor.secret
<1> DEFINE none == -1
<1>1. none \in Int
  OBVIOUS
<1> HIDE DEF none
<1>2. [factor EXCEPT !.status = "off", !.last = none] \in Factor
  BY <1>1 DEF Factor
<1>3. /\ [factor EXCEPT !.status = "off", !.last = none].status = "off"
      /\ [factor EXCEPT !.status = "off", !.last = none].secret = factor.secret
  BY DEF Factor
<1>4. QED
  BY <1>2, <1>3 DEF none, Off

(* What an accepted second factor leaves: whoever goes on to drop the      *)
(* factor's last code or to replace the unused codes only puts more        *)
(* behind.                                                                 *)
LEMMA VerifiedSpends ==
  ASSUME CredentialTypeOK, CodesInv, NEW f \in Factors, Verified(f),
         \/ /\ backup' \in {AfterBackup(f), NewSeries}
            /\ factor' = AfterFactor(f)
         \/ /\ backup' = [backup EXCEPT !.unused = {}]
            /\ factor' = Off
  PROVE  /\ CodesInv'
         /\ factor' \in Factor /\ backup' \in Backup
         /\ factor'.status \in {factor.status, "off"}
         /\ spent' \subseteq ({"totp"} \X Nat \X Int)
                                 \cup ({"backup"} \X Nat \X BackupCodes)
<1>1. /\ factor \in Factor /\ backup \in Backup /\ factor.status = "on"
      /\ f.kind = "totp" => f.code \in Int
      /\ f.kind \in {"totp", "backup"}
  BY CredentialsAssumption DEF CredentialTypeOK, Verified, Factors
<1>2. factor' \in Factor /\ backup' \in Backup
  <2>1. AfterFactor(f) \in Factor
    BY <1>1 DEF AfterFactor, Factor
  <2>2. Off \in Factor
    BY <1>1, OffIsOff
  <2>3. AfterBackup(f) \in Backup
    BY <1>1 DEF AfterBackup, Backup
  <2>4. /\ NewSeries \in Backup
        /\ [backup EXCEPT !.unused = {}] \in Backup
    BY <1>1 DEF NewSeries, Backup
  <2>5. QED
    BY <2>1, <2>2, <2>3, <2>4
<1>3. /\ factor'.secret = factor.secret
      /\ factor'.status \in {"on", "off"}
      /\ factor'.status = "on" =>
            /\ factor'.last >= factor.last
            /\ f.kind = "totp" => factor'.last = f.code
  BY <1>1, OffIsOff DEF AfterFactor, Factor, Verified, Fresh
<1>4. /\ backup'.series >= backup.series
      /\ backup'.series = backup.series =>
            /\ backup'.unused \subseteq backup.unused
            /\ f.kind = "backup" => f.code \notin backup'.unused
  BY <1>1 DEF AfterBackup, NewSeries, Backup
<1>5. ASSUME NEW it \in spent
      PROVE  /\ it[1] = "totp" => TotpBehind(it[2], it[3])'
             /\ it[1] = "backup" => BackupBehind(it[2], it[3])'
  <2>1. /\ it[1] = "totp" => it[2] \in Nat /\ it[3] \in Int
        /\ it[1] = "backup" => it[2] \in Nat
    BY <1>5 DEF CredentialTypeOK
  <2>2. it[1] = "totp" => TotpBehind(it[2], it[3])'
    BY <1>1, <1>2, <1>3, <1>5, <2>1
       DEF CodesInv, SpentIsBehind, TotpBehind, Factor
  <2>3. it[1] = "backup" => BackupBehind(it[2], it[3])'
    BY <1>1, <1>2, <1>4, <1>5, <2>1
       DEF CodesInv, SpentIsBehind, BackupBehind, Backup
  <2>4. QED
    BY <2>2, <2>3
<1>6. CASE f.kind = "totp"
  <2>1. /\ ~spentTwice'
        /\ spent' = spent \cup {<<"totp", factor.secret, f.code>>}
        /\ spent' \subseteq ({"totp"} \X Nat \X Int)
                                \cup ({"backup"} \X Nat \X BackupCodes)
    BY <1>1, <1>6, SpendTotp DEF Verified, Fresh
  <2>2. ASSUME NEW it, it = <<"totp", factor.secret, f.code>>
        PROVE  it[1] = "totp" /\ TotpBehind(it[2], it[3])'
    BY <1>1, <1>2, <1>3, <1>6, <2>2 DEF TotpBehind, Factor
  <2>3. CodesInv'
    BY <1>5, <2>1, <2>2 DEF CodesInv, SpentIsBehind
  <2>4. QED
    BY <1>1, <1>2, <1>3, <2>1, <2>3
<1>7. CASE f.kind = "backup"
  <2>1. /\ ~spentTwice'
        /\ spent' = spent \cup {<<"backup", backup.series, f.code>>}
        /\ spent' \subseteq ({"totp"} \X Nat \X Int)
                                \cup ({"backup"} \X Nat \X BackupCodes)
    BY <1>1, <1>7, SpendBackup DEF Verified
  <2>2. ASSUME NEW it, it = <<"backup", backup.series, f.code>>
        PROVE  it[1] = "backup" /\ BackupBehind(it[2], it[3])'
    BY <1>1, <1>2, <1>4, <1>7, <2>2 DEF BackupBehind, Backup
  <2>3. CodesInv'
    BY <1>5, <2>1, <2>2 DEF CodesInv, SpentIsBehind
  <2>4. QED
    BY <1>1, <1>2, <1>3, <2>1, <2>3
<1>8. QED
  BY <1>1, <1>6, <1>7

LEMMA CodesStay ==
  ASSUME CodesInv, UNCHANGED <<factor, backup, spent, spentTwice>>
  PROVE  CodesInv'
  BY DEF CodesInv, SpentIsBehind, TotpBehind, BackupBehind

(* Codes of a secret that never was confirmed are not spent, and the next  *)
(* secret has none.                                                        *)
LEMMA EnrollmentCodes ==
  ASSUME CredentialTypeOK, CodesInv, UNCHANGED <<backup, spent, spentTwice>>,
         factor' \in Factor,
         \/ factor'.secret = factor.secret + 1
         \/ factor'.secret = factor.secret /\ factor'.status = "off"
  PROVE  CodesInv'
<1> SUFFICES ASSUME NEW it \in spent
             PROVE  /\ it[1] = "totp" => TotpBehind(it[2], it[3])'
                    /\ it[1] = "backup" => BackupBehind(it[2], it[3])'
  BY DEF CodesInv, SpentIsBehind
<1>1. it[1] = "totp" => it[2] \in Nat
  BY DEF CredentialTypeOK
<1>2. /\ it[1] = "totp" => TotpBehind(it[2], it[3])
      /\ it[1] = "backup" => BackupBehind(it[2], it[3])
  BY DEF CodesInv, SpentIsBehind
<1>3. factor.secret \in Nat
  BY DEF CredentialTypeOK, Factor
<1>4. QED
  BY <1>1, <1>2, <1>3 DEF TotpBehind, BackupBehind

(* Each operation on the second factor keeps the codes behind it.          *)
LEMMA BeginStep ==
  ASSUME CredentialInv, NEW s \in Sessions, BeginTotpEnrollment(s)
  PROVE  CredentialInv'
<1> USE DEF CredentialInv, BeginTotpEnrollment
<1>1. factor' = [status |-> "pending", secret |-> factor.secret + 1, last |-> -1]
  OBVIOUS
<1>2. factor' \in Factor /\ factor'.secret = factor.secret + 1
      /\ factor'.status = "pending"
  BY <1>1 DEF Factor, CredentialTypeOK
<1>3. CredentialTypeOK'
  BY <1>2 DEF CredentialTypeOK
<1>4. CodesInv'
  BY <1>2, EnrollmentCodes
<1>5. QED
  BY <1>2, <1>3, <1>4 DEF WaysIn, Live, OneResetLink

LEMMA ExpiresStep ==
  ASSUME CredentialInv, EnrollmentExpires
  PROVE  CredentialInv'
<1> USE DEF CredentialInv, EnrollmentExpires
<1>1. /\ factor' \in Factor
      /\ factor'.secret = factor.secret /\ factor'.status = "off"
  BY OffIsOff DEF CredentialTypeOK
<1>2. CredentialTypeOK'
  BY <1>1 DEF CredentialTypeOK
<1>3. CodesInv'
  BY <1>1, EnrollmentCodes
<1>4. QED
  BY <1>1, <1>2, <1>3 DEF WaysIn, Live, OneResetLink

LEMMA ConfirmStep ==
  ASSUME CredentialInv, NEW s \in Sessions, NEW c \in 0 .. MaxClock + 1,
         ConfirmTotpEnrollment(s, c)
  PROVE  CredentialInv'
<1> USE DEF CredentialInv
<1>1. c \in Int
  BY CredentialsAssumption
<1>2. /\ ~spentTwice'
      /\ spent' = spent \cup {<<"totp", factor.secret, c>>}
      /\ spent' \subseteq ({"totp"} \X Nat \X Int)
                              \cup ({"backup"} \X Nat \X BackupCodes)
  BY <1>1, SpendTotp DEF ConfirmTotpEnrollment
<1>3. /\ factor \in Factor /\ backup \in Backup /\ sessions \in [Sessions -> Session]
      /\ factor.status = "pending"
  BY DEF CredentialTypeOK, ConfirmTotpEnrollment
<1>4. /\ factor' \in Factor
      /\ factor'.secret = factor.secret /\ factor'.status = "on"
      /\ factor'.last = c
  BY <1>1, <1>3 DEF ConfirmTotpEnrollment, Factor
<1>5. backup' \in Backup /\ backup'.series = backup.series + 1
  BY <1>3 DEF ConfirmTotpEnrollment, NewSeries, Backup
<1>6. /\ sessions' = OnlyVerified(s)
      /\ UNCHANGED <<password, resetLinks, clock>>
  BY DEF ConfirmTotpEnrollment
<1>7. sessions' \in [Sessions -> Session]
  <2>1. NoSession \in Session
    BY DEF NoSession, Session
  <2>2. [sessions[s] EXCEPT !.verified = TRUE] \in Session
    BY <1>3 DEF Session
  <2>3. QED
    BY <1>3, <1>6, <2>1, <2>2 DEF OnlyVerified
<1>8. CredentialTypeOK'
  BY <1>2, <1>4, <1>5, <1>6, <1>7 DEF CredentialTypeOK
<1>9. CodesInv'
  <2>1. ASSUME NEW it \in spent
        PROVE  /\ it[1] = "totp" => TotpBehind(it[2], it[3])'
               /\ it[1] = "backup" => BackupBehind(it[2], it[3])'
    <3>1. /\ it[1] = "totp" => TotpBehind(it[2], it[3]) /\ it[2] \in Nat
          /\ it[1] = "backup" => BackupBehind(it[2], it[3]) /\ it[2] \in Nat
      BY DEF CodesInv, SpentIsBehind, CredentialTypeOK
    <3>2. QED
      BY <1>3, <1>4, <1>5, <3>1 DEF TotpBehind, BackupBehind, Factor, Backup
  <2>2. ASSUME NEW it, it = <<"totp", factor.secret, c>>
        PROVE  it[1] = "totp" /\ TotpBehind(it[2], it[3])'
    BY <1>1, <1>3, <1>4, <2>2 DEF TotpBehind, Factor
  <2>3. QED
    BY <1>2, <2>1, <2>2 DEF CodesInv, SpentIsBehind
<1>10. WaysIn'
  <2> SUFFICES ASSUME NEW x \in Sessions, sessions'[x] # NoSession
               PROVE  sessions'[x].password = password /\ sessions'[x].verified
    BY <1>6 DEF WaysIn, Live
  <2>1. x = s /\ sessions[s] # NoSession
        /\ sessions'[x] = [sessions[s] EXCEPT !.verified = TRUE]
    BY <1>6 DEF OnlyVerified, Live
  <2>2. QED
    BY <1>3, <2>1 DEF WaysIn, Live, Session
<1>11. QED
  BY <1>6, <1>8, <1>9, <1>10 DEF OneResetLink

LEMMA RegenerateStep ==
  ASSUME CredentialInv, NEW s \in Sessions, NEW f \in Factors,
         RegenerateBackupCodes(s, f)
  PROVE  CredentialInv'
<1> USE DEF CredentialInv, RegenerateBackupCodes
<1>1. /\ CodesInv'
      /\ factor' \in Factor /\ backup' \in Backup
      /\ factor'.status \in {factor.status, "off"}
      /\ spent' \subseteq ({"totp"} \X Nat \X Int)
                              \cup ({"backup"} \X Nat \X BackupCodes)
  BY VerifiedSpends
<1>2. CredentialTypeOK'
  BY <1>1 DEF CredentialTypeOK
<1>3. QED
  BY <1>1, <1>2 DEF WaysIn, Live, OneResetLink

LEMMA DisableStep ==
  ASSUME CredentialInv, NEW s \in Sessions, NEW f \in Factors, DisableMfa(s, f)
  PROVE  CredentialInv'
<1> USE DEF CredentialInv, DisableMfa
<1>1. /\ CodesInv'
      /\ factor' \in Factor /\ backup' \in Backup
      /\ spent' \subseteq ({"totp"} \X Nat \X Int)
                              \cup ({"backup"} \X Nat \X BackupCodes)
  BY VerifiedSpends
<1>2. CredentialTypeOK'
  BY <1>1 DEF CredentialTypeOK, Session, NoSession
<1>3. QED
  BY <1>1, <1>2 DEF WaysIn, Live, OneResetLink

LEMMA LoginStep ==
  ASSUME CredentialInv, NEW s \in Sessions, NEW f \in Factors, Login(s, f)
  PROVE  CredentialInv'
<1> USE DEF CredentialInv
<1>1. /\ CodesInv'
      /\ factor' \in Factor /\ backup' \in Backup
      /\ factor'.status = "on" => factor.status = "on"
      /\ spent' \subseteq ({"totp"} \X Nat \X Int)
                              \cup ({"backup"} \X Nat \X BackupCodes)
  <2>1. CASE factor.status = "on"
    BY <2>1, VerifiedSpends DEF Login
  <2>2. CASE factor.status # "on"
    BY <2>2, CodesStay DEF Login, CredentialTypeOK
  <2>3. QED
    BY <2>1, <2>2
<1>2. /\ sessions' = [sessions EXCEPT ![s] = NewSession]
      /\ UNCHANGED <<password, inFlight, resetLinks, clock>>
  BY DEF Login
<1>3. /\ NewSession.password = password
      /\ factor.status = "on" => NewSession.verified
  BY DEF NewSession
<1>4. NewSession \in Session
  <2>1. (factor.status = "on") \in BOOLEAN
    OBVIOUS
  <2>2. password \in Nat
    BY DEF CredentialTypeOK
  <2>3. QED
    BY <2>1, <2>2 DEF NewSession, Session
<1> HIDE DEF CredentialInv
<1>5. CredentialTypeOK'
  BY <1>1, <1>2, <1>4 DEF CredentialTypeOK, CredentialInv
<1>6. WaysIn'
  BY <1>1, <1>2, <1>3 DEF WaysIn, Live, CredentialInv, CredentialTypeOK
<1>7. QED
  BY <1>1, <1>2, <1>5, <1>6 DEF OneResetLink, CredentialInv

LEMMA ChangeStep ==
  ASSUME CredentialInv, NEW s \in Sessions, ChangePassword(s)
  PROVE  CredentialInv'
<1> USE DEF CredentialInv, ChangePassword
<1>1. CodesInv'
  BY CodesStay
<1>2. /\ password \in Nat \ {0} /\ password' = password + 1
      /\ sessions \in [Sessions -> Session]
  BY DEF CredentialTypeOK
<1>3. [sessions[s] EXCEPT !.password = password'] \in Session
  BY <1>2 DEF Session
<1>4. CredentialTypeOK'
  BY <1>2, <1>3 DEF CredentialTypeOK, Session, NoSession, LinksVoid, NoLink
<1>5. WaysIn'
  <2> SUFFICES ASSUME NEW x \in Sessions, sessions'[x] # NoSession
               PROVE  /\ sessions'[x].password = password'
                      /\ factor.status = "on" => sessions'[x].verified
    BY DEF WaysIn, Live
  <2>1. x = s /\ sessions[s] # NoSession
        /\ sessions'[x] = [sessions[s] EXCEPT !.password = password']
    BY DEF Live
  <2>2. QED
    BY <1>2, <2>1 DEF WaysIn, Live, Session
<1>6. QED
  BY <1>1, <1>4, <1>5 DEF OneResetLink, LinksVoid

LEMMA LinkStep ==
  ASSUME CredentialInv, NEW t \in ResetLinks,
         RequestPasswordReset(t) \/ ResetLinkExpires(t)
  PROVE  CredentialInv'
<1> USE DEF CredentialInv, RequestPasswordReset, ResetLinkExpires
<1>1. CodesInv'
  BY CodesStay
<1>2. CredentialTypeOK'
  BY DEF CredentialTypeOK, LinksVoid, NoLink
<1>3. OneResetLink'
  BY DEF OneResetLink, LinksVoid, CredentialTypeOK, NoLink
<1>4. QED
  BY <1>1, <1>2, <1>3 DEF WaysIn, Live

LEMMA ResetStep ==
  ASSUME CredentialInv, NEW t \in ResetLinks, CompletePasswordReset(t)
  PROVE  CredentialInv'
<1> USE DEF CredentialInv, CompletePasswordReset
<1>1. CodesInv'
  BY CodesStay
<1>2. CredentialTypeOK'
  BY DEF CredentialTypeOK, LinksVoid, NoLink, Session, NoSession
<1>3. QED
  BY <1>1, <1>2 DEF OneResetLink, LinksVoid, WaysIn, Live

LEMMA QuietStep ==
  ASSUME CredentialInv, UNCHANGED <<password, resetLinks, factor, backup, spent,
                                    spentTwice>>,
         clock' \in Nat,
         \/ sessions' = sessions
         \/ \E gone \in SUBSET Sessions :
               sessions' = [x \in Sessions |->
                                IF x \in gone THEN NoSession ELSE sessions[x]]
  PROVE  CredentialInv'
<1> USE DEF CredentialInv
<1>1. CodesInv'
  BY CodesStay
<1>2. NoSession \in Session /\ sessions \in [Sessions -> Session]
  BY DEF NoSession, Session, CredentialTypeOK
<1>3. sessions' \in [Sessions -> Session]
  BY <1>2
<1>4. CredentialTypeOK'
  BY <1>3 DEF CredentialTypeOK
<1>5. QED
  BY <1>1, <1>4 DEF OneResetLink, WaysIn, Live

LEMMA CredentialStep ==
  ASSUME CredentialInv, [CredentialNext]_credentialVars
  PROVE  CredentialInv'
<1>0. clock \in Nat
  BY DEF CredentialInv, CredentialTypeOK
<1>1. ASSUME NEW s \in Sessions,
             Request(s) \/ RequestFails(s) \/ RevokeSession(s) \/ RevokeAllSessions(s)
      PROVE  CredentialInv'
  BY <1>0, <1>1, QuietStep
     DEF Request, RequestFails, RevokeSession, RevokeAllSessions, Ended
<1>2. CASE TimePasses
  BY <1>0, <1>2, QuietStep DEF TimePasses
<1>3. CASE UNCHANGED credentialVars
  BY <1>0, <1>3, QuietStep DEF credentialVars
<1>4. ASSUME NEW s \in Sessions, NEW f \in Factors,
             Login(s, f) \/ RegenerateBackupCodes(s, f) \/ DisableMfa(s, f)
      PROVE  CredentialInv'
  BY <1>4, LoginStep, RegenerateStep, DisableStep
<1>5. QED
  BY <1>1, <1>2, <1>3, <1>4, BeginStep, ExpiresStep, ConfirmStep, ChangeStep,
     LinkStep, ResetStep
     DEF CredentialNext

\* Whatever requests are under way while passwords, sessions, reset links and
\* the second factor change: who is in came in by what counts now, no code is
\* accepted twice, and there is one reset link, for the password of now.
THEOREM WaysInAreCurrent == CredentialSpec => []CredentialsSound
<1>1. CredentialInit => CredentialInv
  <2> SUFFICES ASSUME CredentialInit PROVE CredentialInv
    OBVIOUS
  <2>1. factor = [status |-> "off", secret |-> 0, last |-> -1]
    BY DEF CredentialInit
  <2>2. factor \in Factor
    BY <2>1 DEF Factor
  <2>3. CredentialTypeOK
    BY <2>2 DEF CredentialInit, CredentialTypeOK, Session, NoSession, NoLink,
                Backup
  <2>4. QED
    BY <2>3 DEF CredentialInit, CredentialInv, WaysIn, Live, CodesInv,
                SpentIsBehind, OneResetLink
<1>2. CredentialInv => CredentialsSound
  BY DEF CredentialInv, WaysIn, CodesInv, CredentialsSound, WayInIsCurrent
<1>3. QED
  BY <1>1, <1>2, CredentialStep, PTL DEF CredentialSpec

-----------------------------------------------------------------------------
(* Members and invitations.  Only the operations named here change who is  *)
(* a member, has a role in the project, or is invited.                     *)

Member == [role : OrganizationRoles, status : MembershipStatuses]
Invitation == [email : People, role : OrganizationRoles,
               project : ProjectRoles \cup {NULL}]

MemberTypeOK ==
    /\ members \in [People -> Member \cup {NoMember}]
    /\ projectRoles \in [People -> ProjectRoles \cup {NULL}]
    /\ invitations \in [Invitations -> Invitation \cup {NoInvitation}]

OpenToMembers == \A u \in People : projectRoles[u] # NULL => members[u] # NoMember

OneInvitationEach ==
    \A i, j \in Invitations :
        invitations[i] # NoInvitation /\ invitations[i].email = invitations[j].email
            => i = j

MemberInv == MemberTypeOK /\ OpenToMembers /\ OneInvitationEach

Owner == [role |-> "owner", status |-> "active"]

\* An operation gives at most one person another membership.
OnlyMember(u, row) ==
    /\ members' = [members EXCEPT ![u] = row]
    /\ u \in People /\ row \in Member \cup {NoMember}

LEMMA NoMemberIsNone == NoMember \notin Member /\ NoMember.status = "none"
  BY DEF NoMember, Member, MembershipStatuses

LEMMA NoInvitationIsNone ==
  NoInvitation \notin Invitation /\ NoInvitation.email \notin People
  BY MembershipAssumption DEF NoInvitation, Invitation

(* What an accepted invitation makes of the membership of its address.     *)
LEMMA AcceptedMember ==
  ASSUME MemberTypeOK, NEW i \in Invitations, AcceptInvitation(i)
  PROVE  \E u \in People, row \in Member :
            /\ u = invitations[i].email
            /\ OnlyMember(u, row)
            /\ members[u] = Owner => row = Owner
            /\ row.status = "active"
<1> DEFINE u == invitations[i].email
           row == [role |-> IF members[u].status = "active" THEN members[u].role
                            ELSE invitations[i].role,
                   status |-> "active"]
<1>1. invitations[i] \in Invitation /\ u \in People
  BY DEF MemberTypeOK, AcceptInvitation, Invitation
<1>2. members[u] \in Member \cup {NoMember} /\ members \in [People -> Member \cup {NoMember}]
  BY <1>1 DEF MemberTypeOK
<1>3. row \in Member
  BY <1>1, <1>2, NoMemberIsNone DEF Member, Invitation, MembershipStatuses
<1>4. members' = [members EXCEPT ![u] = row]
  BY <1>1, <1>2 DEF AcceptInvitation
<1>5. members[u] = Owner => row = Owner
  BY DEF Owner
<1>6. OnlyMember(u, row)
  BY <1>1, <1>3, <1>4 DEF OnlyMember
<1>7. QED
  BY <1>1, <1>3, <1>5, <1>6

(* Sending an invitation and taking it up leave one to each address.       *)
LEMMA InvitationsStay ==
  ASSUME MemberInv, NEW i \in Invitations, NEW email \in People,
         NEW row \in Invitation \cup {NoInvitation},
         row # NoInvitation => row.email = email,
         invitations' = [OthersRevoked(i, email) EXCEPT ![i] = row]
  PROVE  /\ invitations' \in [Invitations -> Invitation \cup {NoInvitation}]
         /\ OneInvitationEach'
<1> USE DEF MemberInv, MemberTypeOK
<1>1. invitations' \in [Invitations -> Invitation \cup {NoInvitation}]
  BY DEF OthersRevoked
<1>2. /\ invitations'[i] = row
      /\ \A j \in Invitations \ {i} :
            \/ invitations'[j] = NoInvitation
            \/ invitations'[j] = invitations[j] /\ invitations[j].email # email
  BY DEF OthersRevoked
<1>3. OneInvitationEach'
  <2> SUFFICES ASSUME NEW j \in Invitations, NEW k \in Invitations,
                      invitations'[j] # NoInvitation,
                      invitations'[j].email = invitations'[k].email
               PROVE  j = k
    BY DEF OneInvitationEach
  <2>1. invitations'[j] \in Invitation /\ invitations'[j].email \in People
    BY <1>1 DEF Invitation
  <2>2. invitations'[k] # NoInvitation
    BY <2>1, NoInvitationIsNone
  <2>3. CASE j = i \/ k = i
    BY <1>2, <2>2, <2>3
  <2>4. CASE j # i /\ k # i
    BY <1>2, <2>2, <2>4 DEF OneInvitationEach
  <2>5. QED
    BY <2>3, <2>4
<1>4. QED
  BY <1>1, <1>3

LEMMA InvitationGoes ==
  ASSUME MemberInv, NEW i \in Invitations,
         invitations' = [invitations EXCEPT ![i] = NoInvitation]
  PROVE  /\ invitations' \in [Invitations -> Invitation \cup {NoInvitation}]
         /\ OneInvitationEach'
<1> USE DEF MemberInv, MemberTypeOK
<1>1. invitations' \in [Invitations -> Invitation \cup {NoInvitation}]
  OBVIOUS
<1>2. ASSUME NEW j \in Invitations, NEW k \in Invitations,
             invitations'[j] # NoInvitation,
             invitations'[j].email = invitations'[k].email
      PROVE  j = k
  <2>1. invitations'[j] = invitations[j] /\ invitations[j].email \in People
    BY <1>2 DEF Invitation
  <2>2. invitations'[k] = invitations[k]
    BY <1>2, <2>1, NoInvitationIsNone
  <2>3. QED
    BY <1>2, <2>1, <2>2 DEF OneInvitationEach
<1>3. QED
  BY <1>1, <1>2 DEF OneInvitationEach

LEMMA MembershipStays ==
  ASSUME MemberInv, NEW u, NEW row, OnlyMember(u, row), row # NoMember,
         UNCHANGED projectRoles
  PROVE  /\ members' \in [People -> Member \cup {NoMember}]
         /\ OpenToMembers'
  BY DEF MemberInv, MemberTypeOK, OpenToMembers, OnlyMember

LEMMA MemberStep ==
  ASSUME MemberInv, [MemberNext]_memberVars
  PROVE  MemberInv'
<1> USE DEF MemberInv
<1>1. CASE UNCHANGED <<members, projectRoles, invitations>>
  BY <1>1 DEF MemberTypeOK, OpenToMembers, OneInvitationEach
<1>2. ASSUME NEW u \in People, BootstrapOwner(u)
      PROVE  MemberInv'
  <2>1. CASE HasOwner
    BY <1>1, <1>2, <2>1 DEF BootstrapOwner
  <2>2. CASE ~HasOwner
    <3>1. Owner \in Member
      BY DEF Owner, Member, OrganizationRoles, MembershipStatuses
    <3>2. OnlyMember(u, Owner) /\ UNCHANGED <<projectRoles, invitations>>
      BY <1>2, <2>2, <3>1 DEF BootstrapOwner, OnlyMember, Owner
    <3>3. QED
      BY <3>1, <3>2, MembershipStays, NoMemberIsNone
         DEF MemberTypeOK, OneInvitationEach
  <2>3. QED
    BY <2>1, <2>2
<1>3. ASSUME NEW u \in People, NEW v \in People, DeleteMembership(u, v)
      PROVE  MemberInv'
  BY <1>3 DEF DeleteMembership, MemberTypeOK, OpenToMembers, OneInvitationEach
<1>4. ASSUME NEW u \in People, NEW v \in People, DeleteProjectMembership(u, v)
      PROVE  MemberInv'
  BY <1>4 DEF DeleteProjectMembership, MemberTypeOK, OpenToMembers,
              OneInvitationEach
<1>5. ASSUME NEW i \in Invitations,
             InvitationExpires(i) \/ \E u \in People : RevokeInvitation(u, i)
      PROVE  MemberInv'
  <2>1. /\ invitations' = [invitations EXCEPT ![i] = NoInvitation]
        /\ UNCHANGED <<members, projectRoles>>
    BY <1>5 DEF InvitationExpires, RevokeInvitation
  <2>2. QED
    BY <2>1, InvitationGoes DEF MemberTypeOK, OpenToMembers
<1>6. ASSUME NEW i \in Invitations, AcceptInvitation(i)
      PROVE  MemberInv'
  <2>1. PICK u \in People, row \in Member :
            u = invitations[i].email /\ OnlyMember(u, row) /\ row.status = "active"
    BY <1>6, AcceptedMember
  <2>2. /\ invitations' \in [Invitations -> Invitation \cup {NoInvitation}]
        /\ OneInvitationEach'
    BY <1>6, <2>1, InvitationsStay DEF AcceptInvitation
  <2>3. invitations[i] \in Invitation
    BY <1>6 DEF AcceptInvitation, MemberTypeOK
  <2>4. projectRoles' \in [People -> ProjectRoles \cup {NULL}]
    BY <1>6, <2>3 DEF AcceptInvitation, MemberTypeOK, Invitation
  <2>5. members' \in [People -> Member \cup {NoMember}]
    BY <2>1 DEF OnlyMember, MemberTypeOK
  <2>6. OpenToMembers'
    <3>1. \A v \in People \ {u} : projectRoles'[v] = projectRoles[v]
      BY <1>6, <2>1 DEF AcceptInvitation, MemberTypeOK
    <3>2. members'[u] = row /\ \A v \in People \ {u} : members'[v] = members[v]
      BY <2>1 DEF OnlyMember, MemberTypeOK
    <3>3. QED
      BY <3>1, <3>2, NoMemberIsNone DEF OpenToMembers
  <2>7. QED
    BY <2>2, <2>4, <2>5, <2>6 DEF MemberTypeOK
<1>7. ASSUME NEW q \in awaiting, NEW u \in People,
             NEW role \in OrganizationRoles, NEW status \in MembershipStatuses,
             LET row == [role |-> role, status |-> status]
             IN  CreateMembership(q, u, row) \/ UpdateMembership(q, u, row)
      PROVE  MemberInv'
  <2> DEFINE row == [role |-> role, status |-> status]
  <2>1. row \in Member
    BY DEF Member
  <2>2. OnlyMember(u, row) /\ UNCHANGED <<projectRoles, invitations>>
    BY <1>7, <2>1 DEF CreateMembership, UpdateMembership, OnlyMember
  <2> HIDE DEF row
  <2>3. QED
    BY <2>1, <2>2, MembershipStays, NoMemberIsNone
       DEF MemberTypeOK, OneInvitationEach
<1>8. ASSUME NEW q \in awaiting, NEW i \in Invitations, NEW u \in People,
             NEW role \in OrganizationRoles, NEW project \in ProjectRoles \cup {NULL},
             CreateInvitation(q, i, u, role, project)
      PROVE  MemberInv'
  <2> DEFINE row == [email |-> u, role |-> role, project |-> project]
  <2>1. row \in Invitation /\ row.email = u
    BY DEF Invitation
  <2>2. /\ invitations' = [OthersRevoked(i, u) EXCEPT ![i] = row]
        /\ UNCHANGED <<members, projectRoles>>
    BY <1>8 DEF CreateInvitation
  <2> HIDE DEF row
  <2>3. QED
    BY <2>1, <2>2, InvitationsStay DEF MemberTypeOK, OpenToMembers
<1>9. ASSUME NEW q \in awaiting, NEW u \in People, NEW role \in ProjectRoles,
             UpsertProjectMembership(q, u, role)
      PROVE  MemberInv'
  <2>1. members[u] # NoMember
    BY <1>9, NoMemberIsNone DEF UpsertProjectMembership
  <2>2. QED
    BY <1>9, <2>1 DEF UpsertProjectMembership, MemberTypeOK, OpenToMembers,
                      OneInvitationEach
<1>10. ASSUME NEW u \in People,
              BootstrapRequested \/ Authorize(u) \/ ArchiveOrganization(u)
                  \/ (\E k \in ApiKeys : RevokeApiKey(u, k))
       PROVE  MemberInv'
  BY <1>1, <1>10 DEF BootstrapRequested, Authorize, ArchiveOrganization,
                     RevokeApiKey
<1>11. CASE BootstrapRequested
  BY <1>1, <1>11 DEF BootstrapRequested
<1>12. ASSUME NEW q \in awaiting, NEW k \in ApiKeys,
              NEW permissions \in SUBSET KeyPermissions,
              CreateApiKey(q, k, permissions)
       PROVE  MemberInv'
  BY <1>1, <1>12 DEF CreateApiKey
<1>13. CASE UNCHANGED memberVars
  BY <1>1, <1>13 DEF memberVars
<1>14. "viewer" \in OrganizationRoles
  BY DEF OrganizationRoles
<1>15. QED
  BY <1>2, <1>3, <1>4, <1>5, <1>6, <1>7, <1>8, <1>9, <1>10, <1>11, <1>12, <1>13,
     <1>14
     DEF MemberNext

LEMMA MemberStart == ASSUME MemberInit PROVE MemberInv
<1>1. members \in [People -> Member \cup {NoMember}]
  BY DEF MemberInit, Member, OrganizationRoles, MembershipStatuses
<1>2. QED
  BY <1>1 DEF MemberInit, MemberInv, MemberTypeOK, OpenToMembers,
              OneInvitationEach

\* However invitations, memberships and roles in the project are changed at
\* once: the project is open to members only, no address has two open
\* invitations, and a key may do no more than who made it.
THEOREM AccessIsSound == MemberSpec => []AccessSound
<1>1. MemberInv => AccessSound
  BY DEF MemberInv, AccessSound, OpenToMembers, OneInvitationEach, KeyMay
<1>2. QED
  BY <1>1, MemberStart, MemberStep, PTL DEF MemberSpec

(* An operation may end the membership of an owner only when the count says *)
(* that there is another.                                                  *)
LEMMA OwnersKept ==
  ASSUME MemberTypeOK, HasOwner, NEW u \in People, NEW row,
         members' = [members EXCEPT ![u] = row],
         members[u] = Owner => row = Owner \/ Cardinality(ActiveOwners(members)) > 1
  PROVE  HasOwner'
<1> USE DEF MemberTypeOK
<1>1. /\ members'[u] = row
      /\ \A w \in People \ {u} : members'[w] = members[w]
  OBVIOUS
<1>2. ASSUME NEW w \in People, members'[w] = Owner
      PROVE  HasOwner'
  BY <1>2 DEF HasOwner, ActiveOwners, Owner
<1>3. CASE \E w \in People \ {u} : members[w] = Owner
  BY <1>1, <1>2, <1>3
<1>4. CASE ~ \E w \in People \ {u} : members[w] = Owner
  <2>1. ActiveOwners(members) = {u}
    BY <1>4 DEF HasOwner, ActiveOwners, Owner
  <2>2. Cardinality(ActiveOwners(members)) = 1
    BY <2>1, FS_Singleton
  <2>3. members[u] = Owner
    BY <2>1 DEF ActiveOwners, Owner
  <2>4. QED
    BY <1>1, <1>2, <2>2, <2>3
<1>5. QED
  BY <1>3, <1>4

LEMMA SetupNeverArrives ==
  ASSUME NEW q, NEW permission, NEW roles, Arrives(q, permission, roles),
         Setup \in awaiting
  PROVE  Setup \in awaiting'
  BY DEF Arrives, Setup

OwnerKept ==
    HasOwner => /\ HasOwner'
                /\ (Setup \in awaiting /\ Setup \notin awaiting') => members' = members

LEMMA OwnerStep == ASSUME MemberInv, MemberNext PROVE OwnerKept
<1> SUFFICES ASSUME HasOwner
             PROVE  /\ HasOwner'
                    /\ (Setup \in awaiting /\ Setup \notin awaiting') =>
                          members' = members
  BY DEF OwnerKept
<1> DEFINE Kept == /\ HasOwner'
                   /\ (Setup \in awaiting /\ Setup \notin awaiting') =>
                          members' = members
<1> USE DEF MemberInv
<1>1. CASE UNCHANGED members
  BY <1>1 DEF HasOwner, ActiveOwners
<1>2. ASSUME NEW u \in People, NEW row, members' = [members EXCEPT ![u] = row],
             members[u] = Owner =>
                 row = Owner \/ Cardinality(ActiveOwners(members)) > 1,
             Setup \in awaiting => Setup \in awaiting'
      PROVE  Kept
  BY <1>2, OwnersKept
<1>3. ASSUME NEW u, NEW row, NotLastOwner(u, row), u \in People
      PROVE  members[u] = Owner =>
                 row = Owner \/ Cardinality(ActiveOwners(members)) > 1
  BY <1>3 DEF NotLastOwner, ActiveOwners, Owner, Counted
<1>4. ASSUME NEW u \in People, NEW v \in People, DeleteMembership(u, v)
      PROVE  Kept
  <2>1. members' = [members EXCEPT ![v] = NoMember] /\ UNCHANGED awaiting
    BY <1>4 DEF DeleteMembership, MayNow
  <2>2. NotLastOwner(v, NoMember)
    BY <1>4 DEF DeleteMembership
  <2>3. QED
    BY <1>2, <1>3, <2>1, <2>2
<1>5. ASSUME NEW i \in Invitations, AcceptInvitation(i)
      PROVE  Kept
  <2>1. PICK u \in People, row \in Member :
            OnlyMember(u, row) /\ (members[u] = Owner => row = Owner)
    BY <1>5, AcceptedMember
  <2>2. UNCHANGED awaiting
    BY <1>5 DEF AcceptInvitation
  <2>3. QED
    BY <1>2, <2>1, <2>2 DEF OnlyMember
<1>6. ASSUME NEW q \in awaiting, NEW u \in People,
             NEW role \in OrganizationRoles, NEW status \in MembershipStatuses,
             LET row == [role |-> role, status |-> status]
             IN  CreateMembership(q, u, row) \/ UpdateMembership(q, u, row)
      PROVE  Kept
  <2> DEFINE row == [role |-> role, status |-> status]
  <2> HIDE DEF row
  <2>1. CASE CreateMembership(q, u, row)
    <3>1. members' = [members EXCEPT ![u] = row] /\ members[u] # Owner
      BY <2>1, NoMemberIsNone DEF CreateMembership, Owner, NoMember
    <3>2. Setup \in awaiting => Setup \in awaiting'
      BY <2>1, SetupNeverArrives DEF CreateMembership
    <3>3. QED
      BY <1>2, <3>1, <3>2
  <2>2. CASE UpdateMembership(q, u, row)
    <3>1. members' = [members EXCEPT ![u] = row] /\ NotLastOwner(u, row)
      BY <2>2 DEF UpdateMembership
    <3>2. Setup \in awaiting => Setup \in awaiting'
      BY <2>2, SetupNeverArrives DEF UpdateMembership
    <3>3. QED
      BY <1>2, <1>3, <3>1, <3>2
  <2>3. QED
    BY <1>6, <2>1, <2>2 DEF row
<1>7. ASSUME NEW u \in People, BootstrapOwner(u)
      PROVE  Kept
  BY <1>1, <1>7 DEF BootstrapOwner
<1>8. QED
  BY <1>1, <1>4, <1>5, <1>6, <1>7
     DEF MemberNext, BootstrapRequested, Authorize, ArchiveOrganization,
         DeleteProjectMembership, RevokeInvitation, RevokeApiKey,
         InvitationExpires, CreateInvitation, UpsertProjectMembership,
         CreateApiKey

\* Whatever owners and administrators change at once, with permissions they
\* may no longer have: an organisation with an active owner goes on having
\* one, and then setting it up changes nothing.
THEOREM OwnerRemains == MemberSpec => OwnerStays
<1>1. MemberInv /\ [MemberNext]_memberVars => [OwnerKept]_memberVars
  BY OwnerStep
<1>2. MemberSpec => [][OwnerKept]_memberVars
  BY <1>1, MemberStart, MemberStep, PTL DEF MemberSpec
<1>3. QED
  BY <1>2, PTL DEF OwnerStays, OwnerKept

-----------------------------------------------------------------------------
(* The file of the database.  A run of restore has found the live file,    *)
(* and until it has answered that file is either still in its place or     *)
(* under the name that only this run uses; what was acknowledged is then   *)
(* in the files that were kept, whatever stands in place of the live one.  *)

MaybeFile == File \cup {NULL}
Steps == {"none", "copying", "staged", "moved", "installed", "undoing",
          "restored", "refused"}

FileTypeOK ==
    /\ release \in Nat \ {0}
    /\ written \subseteq Nat /\ IsFiniteSet(written)
    /\ server \in {"stopped", "starting", "serving"}
    /\ live \in MaybeFile
    /\ kept \in [Restores -> MaybeFile]
    /\ copies \in [Copies -> MaybeFile]
    /\ copying \in [to : Copies, reads : File] \cup {NULL}
    /\ restore \in [step : Steps, run : Restores \cup {NULL}, source : MaybeFile,
                    staged : MaybeFile, found : MaybeFile, left : MaybeFile]

IsKept(n) == \E r \in Restores : kept[r] # NULL /\ n \in kept[r].holds

(* Where each step of a run finds the file that was live.                  *)
RunInv ==
    /\ restore.step \in {"copying", "staged"} =>
          live = restore.found /\ kept[restore.run] = NULL
    /\ restore.step = "staged" => restore.staged \in {restore.source, Torn}
    /\ restore.step \in {"moved", "installed"} => restore.staged = restore.source
    /\ restore.step \in {"moved", "undoing"} => live = NULL
    /\ restore.step = "installed" =>
          live = restore.staged /\ \A n \in written : IsKept(n)
    /\ restore.step \in {"moved", "installed", "undoing"} =>
          /\ kept[restore.run] = restore.found
          /\ restore.step = "moved" => restore.found # NULL

FileInv ==
    /\ FileTypeOK
    /\ Restoring => /\ server = "stopped"
                    /\ restore.run # NULL
                    /\ restore.source # NULL /\ restore.source.version = release
    /\ server # "stopped" => live # NULL
    /\ \A r \in Restores : restore.run = NULL \/ restore.run < r => kept[r] = NULL
    /\ RunInv
    /\ StorageSound

LEMMA HeldSomewhere ==
  NothingIsLost <=>
      \A n \in written : (live # NULL /\ n \in live.holds) \/ IsKept(n)
  BY DEF NothingIsLost, IsKept

LEMMA RunsDiffer ==
  ASSUME NEW r \in Restores, NEW q \in Restores, NEW p \in Restores, p < q, q < r
  PROVE  p < r /\ p # q
  BY FileAssumption

(* The operations of the server and of a backup, and a new release: they   *)
(* come while no restore is under way, or leave alone all it looks at.     *)
LEMMA ServerStep ==
  ASSUME FileInv, Deploy \/ ServerStarts \/ Migrate \/ ServerListens \/ Write \/ ServerStops
  PROVE  FileInv'
<1> USE DEF FileInv
<1>1. /\ FileTypeOK /\ RestoredOrUntouched /\ NothingIsLost
      /\ UNCHANGED <<kept, copies, copying, restore>>
  BY DEF StorageSound, Deploy, ServerStarts, Migrate, ServerListens, Write,
         ServerStops
<1>2. RestoredOrUntouched'
  BY <1>1 DEF RestoredOrUntouched
<1>3. CASE Restoring
  <2>1. UNCHANGED <<release, written, server, live>>
    BY <1>3 DEF Deploy, ServerStarts, Migrate, ServerListens, Write, ServerStops
  <2>2. QED
    BY <1>1, <1>2, <1>3, <2>1
       DEF FileTypeOK, Restoring, RunInv, IsKept, StorageSound, NothingIsLost
<1>4. CASE ~Restoring
  <2>1. ~Restoring' /\ RunInv'
    BY <1>1, <1>4 DEF Restoring, Answered, RunInv
  <2>2. /\ FileTypeOK'
        /\ server' # "stopped" => live' # NULL
        /\ \A n \in written' \ written : live' # NULL /\ n \in live'.holds
        /\ live # NULL => live' # NULL /\ live.holds \subseteq live'.holds
    <3>1. CASE Deploy
      BY <1>1, <3>1, FileAssumption DEF Deploy, FileTypeOK
    <3>2. CASE ServerStarts
      <4>1. Empty \in File /\ Empty # NULL
        BY FileAssumption DEF Empty, File
      <4>2. QED
        BY <1>1, <3>2, <4>1 DEF ServerStarts, FileTypeOK, MaybeFile
    <3>3. CASE Migrate
      <4>1. live \in File
        BY <1>1, <3>3 DEF Migrate, FileTypeOK, MaybeFile
      <4>2. /\ [live EXCEPT !.version = @ + 1] \in File
            /\ [live EXCEPT !.version = @ + 1].holds = live.holds
        BY <4>1 DEF File
      <4>3. QED
        BY <1>1, <3>3, <4>1, <4>2, FileAssumption
           DEF Migrate, FileTypeOK, MaybeFile
    <3>4. CASE ServerListens
      BY <1>1, <3>4 DEF ServerListens, FileTypeOK
    <3>5. CASE Write
      <4>1. live \in File
        BY <1>1, <3>5 DEF Write, FileTypeOK, MaybeFile
      <4>2. written' \subseteq Nat /\ IsFiniteSet(written')
        BY <1>1, <3>5, FS_CardinalityType, FS_AddElement DEF Write, FileTypeOK
      <4>3. /\ live' = [live EXCEPT !.holds = @ \cup (written' \ written)]
            /\ UNCHANGED <<release, server, kept, copies, copying, restore>>
        BY <3>5 DEF Write
      <4>4. /\ live' \in File
            /\ live'.holds = live.holds \cup (written' \ written)
        BY <4>1, <4>2, <4>3 DEF File
      <4>5. QED
        BY <1>1, <4>1, <4>2, <4>3, <4>4, FileAssumption DEF FileTypeOK, MaybeFile
    <3>6. CASE ServerStops
      BY <1>1, <3>6 DEF ServerStops, FileTypeOK
    <3>7. QED
      BY <3>1, <3>2, <3>3, <3>4, <3>5, <3>6
  <2>3. NothingIsLost'
    BY <1>1, <2>2, HeldSomewhere DEF NothingIsLost, IsKept
  <2>4. QED
    BY <1>1, <1>2, <2>1, <2>2, <2>3 DEF StorageSound
<1>5. QED
  BY <1>3, <1>4

LEMMA BackupStep ==
  ASSUME FileInv, BackupDone \/ BackupKilled \/ \E b \in Copies : BackupStarts(b)
  PROVE  FileInv'
<1> USE DEF FileInv
<1>1. UNCHANGED <<release, written, server, live, kept, restore>>
  BY DEF BackupDone, BackupKilled, BackupStarts
<1>2. FileTypeOK'
  <2>1. Torn \in File
    <3>1. -1 \in Int
      OBVIOUS
    <3>2. QED
      BY <3>1 DEF Torn, File
  <2>2. ASSUME NEW b \in Copies, BackupStarts(b)
        PROVE  FileTypeOK'
    BY <2>1, <2>2 DEF BackupStarts, FileTypeOK, MaybeFile
  <2>3. CASE BackupDone
    BY <2>3 DEF BackupDone, FileTypeOK, MaybeFile
  <2>4. CASE BackupKilled
    BY <2>4 DEF BackupKilled, FileTypeOK
  <2>5. QED
    BY <2>2, <2>3, <2>4
<1>3. QED
  BY <1>1, <1>2 DEF Restoring, RunInv, IsKept, StorageSound, NothingIsLost,
                    RestoredOrUntouched

(* The steps of a run.                                                     *)
LEMMA RestoreStartStep ==
  ASSUME FileInv, NEW r \in Restores, NEW b \in Copies, RestoreStarts(r, b)
  PROVE  FileInv'
<1> USE DEF FileInv
<1>1. /\ restore' = [step |-> "copying", run |-> r, source |-> copies[b],
                     staged |-> NULL, found |-> live, left |-> NULL]
      /\ UNCHANGED <<release, written, server, live, kept, copies, copying>>
      /\ server = "stopped" /\ copies[b] # NULL /\ copies[b].version = release
      /\ restore.run # NULL => restore.run < r
  BY DEF RestoreStarts, Recognizable
<1>2. restore.run \in Restores \cup {NULL} /\ r # NULL
  BY FileAssumption DEF FileTypeOK
<1>3. FileTypeOK'
  BY <1>1 DEF FileTypeOK, MaybeFile, Steps
<1>4. kept[r] = NULL
  BY <1>1, <1>2
<1>5. RunInv'
  BY <1>1, <1>4 DEF RunInv
<1>6. \A q \in Restores : r < q => kept[q] = NULL
  BY <1>1, <1>2, RunsDiffer
<1>7. StorageSound'
  BY <1>1 DEF StorageSound, NothingIsLost, RestoredOrUntouched
<1>8. QED
  BY <1>1, <1>2, <1>3, <1>5, <1>6, <1>7

LEMMA StageStep ==
  ASSUME FileInv, StageCopy
  PROVE  FileInv'
<1> USE DEF FileInv
<1>1. PICK file \in {restore.source, Torn} :
        restore' = [restore EXCEPT !.step = "staged", !.staged = file]
  BY DEF StageCopy
<1>2. /\ UNCHANGED <<release, written, server, live, kept, copying, copies>>
      /\ restore.step = "copying" /\ Restoring
  BY DEF StageCopy, Restoring, Answered
<1>3. file \in MaybeFile
  <2>1. -1 \in Int
    OBVIOUS
  <2>2. Torn \in File
    BY <2>1 DEF Torn, File
  <2>3. QED
    BY <2>2 DEF FileTypeOK, MaybeFile
<1>4. /\ restore'.step = "staged" /\ restore'.staged = file
      /\ restore'.run = restore.run /\ restore'.source = restore.source
      /\ restore'.found = restore.found
      /\ FileTypeOK'
  BY <1>1, <1>2, <1>3 DEF FileTypeOK, Steps
<1>5. RunInv'
  BY <1>2, <1>4 DEF RunInv
<1>6. StorageSound'
  BY <1>2, <1>4 DEF StorageSound, NothingIsLost, RestoredOrUntouched
<1>7. QED
  BY <1>2, <1>4, <1>5, <1>6

(* A staged copy that is recognised is the copy that was asked for.        *)
LEMMA RecognisedIsSource ==
  ASSUME FileInv, restore.step = "staged", Recognizable(restore.staged)
  PROVE  restore.staged = restore.source
<1>1. -1 # release /\ Torn.version = -1
  BY DEF FileInv, FileTypeOK, Torn
<1>2. QED
  BY <1>1 DEF FileInv, RunInv, Recognizable

LEMMA MoveStep ==
  ASSUME FileInv, MoveLive
  PROVE  FileInv'
<1> USE DEF FileInv
<1> DEFINE run == restore.run
<1>1. /\ restore.step = "staged" /\ Restoring /\ live # NULL
      /\ kept' = [kept EXCEPT ![run] = live] /\ live' = NULL
      /\ restore' = [restore EXCEPT !.step = "moved"]
      /\ UNCHANGED <<release, written, server, copying, copies>>
  BY DEF MoveLive, Restoring, Answered, KeptAs, Step
<1>2. run \in Restores /\ restore.staged = restore.source
  BY <1>1, RecognisedIsSource DEF FileTypeOK, MoveLive
<1>3. /\ FileTypeOK'
      /\ restore'.step = "moved" /\ restore'.run = run
      /\ restore'.source = restore.source /\ restore'.staged = restore.staged
      /\ restore'.found = restore.found
  BY <1>1, <1>2 DEF FileTypeOK, Steps, MaybeFile
<1>4. kept'[run] = live /\ \A q \in Restores \ {run} : kept'[q] = kept[q]
  BY <1>1, <1>2 DEF FileTypeOK
<1>5. RunInv'
  BY <1>1, <1>2, <1>3, <1>4 DEF RunInv
<1>6. \A q \in Restores : run < q => kept'[q] = NULL
  BY <1>1, <1>2, <1>4, FileAssumption
<1>7. StorageSound'
  <2>1. kept[run] = NULL
    BY <1>1 DEF RunInv
  <2>2. \A n \in written : IsKept(n)'
    BY <1>1, <1>2, <1>4, <2>1, HeldSomewhere DEF StorageSound, IsKept
  <2>3. QED
    BY <1>1, <1>3, <2>2
       DEF StorageSound, NothingIsLost, RestoredOrUntouched, IsKept
<1>8. QED
  BY <1>1, <1>2, <1>3, <1>5, <1>6, <1>7

LEMMA InstallStep ==
  ASSUME FileInv, InstallStaged
  PROVE  FileInv'
<1> USE DEF FileInv
<1>1. /\ restore.step \in {"moved", "staged"} /\ Restoring
      /\ restore.step = "staged" =>
            restore.found = NULL /\ Recognizable(restore.staged)
      /\ live' = restore.staged
      /\ restore' = [restore EXCEPT !.step = "installed"]
      /\ UNCHANGED <<release, written, server, kept, copying, copies>>
  BY DEF InstallStaged, Restoring, Answered, Step
<1>2. /\ restore.run \in Restores /\ restore.staged = restore.source
      /\ live = NULL /\ kept[restore.run] = restore.found
  BY <1>1, RecognisedIsSource DEF FileTypeOK, RunInv
<1>3. /\ FileTypeOK'
      /\ restore'.step = "installed" /\ restore'.run = restore.run
      /\ restore'.source = restore.source /\ restore'.staged = restore.staged
      /\ restore'.found = restore.found
  BY <1>1, <1>2 DEF FileTypeOK, Steps
<1>4. \A n \in written : IsKept(n) /\ IsKept(n)'
  BY <1>1, <1>2, HeldSomewhere DEF StorageSound, IsKept
<1>5. RunInv'
  BY <1>1, <1>2, <1>3, <1>4 DEF RunInv
<1>6. StorageSound'
  BY <1>1, <1>3, <1>4 DEF StorageSound, NothingIsLost, RestoredOrUntouched, IsKept
<1>7. QED
  BY <1>1, <1>2, <1>3, <1>5, <1>6

LEMMA SucceedStep ==
  ASSUME FileInv, RestoreSucceeds
  PROVE  FileInv'
<1> USE DEF FileInv
<1>1. /\ restore.step = "installed"
      /\ restore' = [restore EXCEPT !.step = "restored", !.left = live]
      /\ UNCHANGED <<release, written, server, live, kept, copying, copies>>
  BY DEF RestoreSucceeds, RestoreAnswers
<1>2. /\ FileTypeOK'
      /\ restore'.step = "restored" /\ restore'.run = restore.run
      /\ restore'.source = restore.source /\ restore'.left = live
  BY <1>1 DEF FileTypeOK, Steps
<1>3. live = restore.source
  BY <1>1 DEF RunInv
<1>4. StorageSound'
  BY <1>1, <1>2, <1>3 DEF StorageSound, NothingIsLost, RestoredOrUntouched
<1>5. QED
  BY <1>1, <1>2, <1>4 DEF Restoring, Answered, RunInv

LEMMA RemoveStep ==
  ASSUME FileInv, RemoveInstalled
  PROVE  FileInv'
<1> USE DEF FileInv
<1>1. /\ restore.step = "installed" /\ Restoring
      /\ live' = NULL
      /\ restore' = [restore EXCEPT !.step = "undoing"]
      /\ UNCHANGED <<release, written, server, kept, copying, copies>>
  BY DEF RemoveInstalled, Step, Restoring, Answered
<1>2. /\ FileTypeOK'
      /\ restore'.step = "undoing" /\ restore'.run = restore.run
      /\ restore'.source = restore.source /\ restore'.found = restore.found
  BY <1>1 DEF FileTypeOK, Steps, MaybeFile
<1>3. \A n \in written : IsKept(n)'
  BY <1>1 DEF RunInv, IsKept
<1>4. RunInv'
  BY <1>1, <1>2 DEF RunInv
<1>5. StorageSound'
  BY <1>1, <1>2, <1>3 DEF StorageSound, NothingIsLost, RestoredOrUntouched, IsKept
<1>6. QED
  BY <1>1, <1>2, <1>4, <1>5

LEMMA FailStep ==
  ASSUME FileInv, RestoreFails
  PROVE  FileInv'
<1> USE DEF FileInv
<1> DEFINE run == restore.run
<1>1. /\ restore.step \in {"copying", "staged", "moved", "undoing"} /\ Restoring
      /\ restore' = [restore EXCEPT !.step = "refused", !.left = live']
      /\ UNCHANGED <<release, written, server, copying, copies>>
  BY DEF RestoreFails, RestoreAnswers, Restoring, Answered
<1>2. run \in Restores
  BY <1>1 DEF FileTypeOK
<1>3. /\ live' \in MaybeFile /\ kept' \in [Restores -> MaybeFile]
      /\ live' = restore.found
      /\ \A q \in Restores \ {run} : kept'[q] = kept[q]
      /\ NothingIsLost'
  <2>1. CASE LiveWasMoved
    <3>1. /\ live' = kept[run] /\ kept' = [kept EXCEPT ![run] = NULL]
          /\ restore.step \in {"moved", "undoing"}
      BY <2>1 DEF RestoreFails, KeptAs, LiveWasMoved
    <3>2. live = NULL /\ kept[run] = restore.found
      BY <3>1 DEF RunInv
    <3>3. \A n \in written : IsKept(n)
      BY <3>2, HeldSomewhere DEF StorageSound
    <3>4. ASSUME NEW n \in written
          PROVE  (live' # NULL /\ n \in live'.holds) \/ IsKept(n)'
      <4>1. PICK q \in Restores : kept[q] # NULL /\ n \in kept[q].holds
        BY <3>3 DEF IsKept
      <4>2. CASE q = run
        BY <3>1, <4>1, <4>2
      <4>3. CASE q # run
        BY <1>2, <3>1, <4>1, <4>3 DEF IsKept, FileTypeOK
      <4>4. QED
        BY <4>2, <4>3
    <3>5. NothingIsLost'
      BY <1>1, <3>4 DEF NothingIsLost, IsKept
    <3>6. QED
      BY <1>2, <3>1, <3>2, <3>5 DEF FileTypeOK, MaybeFile
  <2>2. CASE ~LiveWasMoved
    <3>1. UNCHANGED <<live, kept>>
      BY <2>2 DEF RestoreFails
    <3>2. live = restore.found
      BY <1>1, <2>2 DEF LiveWasMoved, RunInv
    <3>3. QED
      BY <1>1, <3>1, <3>2 DEF FileTypeOK, StorageSound, NothingIsLost
  <2>3. QED
    BY <2>1, <2>2
<1>4. /\ FileTypeOK'
      /\ restore'.step = "refused" /\ restore'.run = run
      /\ restore'.found = restore.found /\ restore'.left = live'
  BY <1>1, <1>3 DEF FileTypeOK, Steps
<1>5. \A q \in Restores : run < q => kept'[q] = NULL
  BY <1>1, <1>2, <1>3, FileAssumption
<1>6. StorageSound'
  BY <1>3, <1>4 DEF StorageSound, RestoredOrUntouched
<1>7. QED
  BY <1>1, <1>2, <1>4, <1>5, <1>6 DEF Restoring, Answered, RunInv

LEMMA KilledStep ==
  ASSUME FileInv, RestoreKilled
  PROVE  FileInv'
<1> USE DEF FileInv
<1>1. /\ restore' = [NoRestore EXCEPT !.run = restore.run]
      /\ UNCHANGED <<release, written, server, live, kept, copying, copies>>
  BY DEF RestoreKilled
<1>2. FileTypeOK' /\ restore'.step = "none" /\ restore'.run = restore.run
  BY <1>1 DEF FileTypeOK, NoRestore, Steps, MaybeFile
<1>3. StorageSound'
  BY <1>1, <1>2 DEF StorageSound, NothingIsLost, RestoredOrUntouched
<1>4. QED
  BY <1>1, <1>2, <1>3 DEF Restoring, Answered, RunInv

LEMMA FileStart == ASSUME FileInit PROVE FileInv
<1>1. FileTypeOK
  BY FS_EmptySet, FileAssumption
     DEF FileInit, FileTypeOK, NoRestore, MaybeFile, Steps
<1>2. StorageSound
  BY DEF FileInit, StorageSound, NothingIsLost, RestoredOrUntouched, NoRestore
<1>3. QED
  BY <1>1, <1>2
     DEF FileInit, FileInv, NoRestore, Restoring, Answered, RunInv

LEMMA FileStep ==
  ASSUME FileInv, [FileNext]_fileVars
  PROVE  FileInv'
<1>1. CASE UNCHANGED fileVars
  BY <1>1 DEF fileVars, FileInv, FileTypeOK, Restoring, RunInv, IsKept,
              StorageSound, NothingIsLost, RestoredOrUntouched
<1>2. QED
  BY <1>1, ServerStep, BackupStep, RestoreStartStep, StageStep, MoveStep,
     InstallStep, SucceedStep, RemoveStep, FailStep, KilledStep
     DEF FileNext

\* Whatever is restored, however often, wherever a run fails or is killed, and
\* whatever the server, its releases and the backups do in between: all that
\* was acknowledged is in the live file or in a kept one, and a run that
\* answers put the copy in place or left the file as it found it.
THEOREM StorageIsSound == FileSpec => []StorageSound
<1>1. FileInv => StorageSound
  BY DEF FileInv
<1>2. QED
  BY <1>1, FileStart, FileStep, PTL DEF FileSpec

-----------------------------------------------------------------------------
(* Documents: what their versions take.                                    *)

SizeOf(d) == IF versions[d] = <<>> THEN 0
             ELSE SumFunctionOnSet(versions[d], DOMAIN versions[d])

Document == [project : Sites, status : {"draft", "active", "archived"},
             archived : BOOLEAN, current : Nat]

DocumentTypeOK ==
    /\ documents \in [Files -> Document \cup {NoDocument}]
    /\ versions \in [Files -> Seq(Nat)]

DocumentInv == DocumentTypeOK /\ WithinQuota

LEMMA SizeIsNat ==
  ASSUME NEW s \in Seq(Nat)
  PROVE  SumFunctionOnSet(s, DOMAIN s) \in Nat
<1>1. IsFiniteSet(DOMAIN s) /\ \A i \in DOMAIN s : s[i] \in Nat
  BY FS_Interval
<1>2. QED
  BY <1>1, SumIsNat

LEMMA SizeGrows ==
  ASSUME NEW s \in Seq(Nat), NEW n \in Nat
  PROVE  SumFunctionOnSet(Append(s, n), DOMAIN Append(s, n)) =
             n + SumFunctionOnSet(s, DOMAIN s)
<1> DEFINE t == Append(s, n)
           D == DOMAIN s
           x == Len(s) + 1
<1>0. /\ D = 1 .. Len(s) /\ Len(s) \in Nat
      /\ DOMAIN t = 1 .. Len(s) + 1
      /\ t[x] = n /\ \A i \in D : t[i] = s[i] /\ s[i] \in Nat
  OBVIOUS
<1>1. /\ IsFiniteSet(D) /\ x \notin D
      /\ DOMAIN t = D \cup {x} /\ t[x] = n
      /\ \A i \in D : t[i] = s[i]
      /\ \A i \in D \cup {x} : t[i] \in Int
  <2> HIDE DEF t, D
  <2>1. IsFiniteSet(D)
    BY <1>0, FS_Interval
  <2>2. QED
    BY <1>0, <2>1
<1> HIDE DEF t, D, x
<1>2. SumFunctionOnSet(t, D) = SumFunctionOnSet(s, D)
  BY <1>1, SumSame
<1>3. SumFunctionOnSet(t, D \cup {x}) = t[x] + SumFunctionOnSet(t, D)
  BY <1>1, SumAdd
<1>4. QED
  BY <1>1, <1>2, <1>3 DEF t, D

LEMMA SizeOfIsSum ==
  ASSUME DocumentTypeOK, NEW d \in Files
  PROVE  SizeOf(d) = SumFunctionOnSet(versions[d], DOMAIN versions[d])
<1>1. CASE versions[d] = <<>>
  <2>1. DOMAIN versions[d] = {}
    BY <1>1
  <2>2. QED
    BY <1>1, <2>1, SumOfNone DEF SizeOf
<1>2. CASE versions[d] # <<>>
  BY <1>2 DEF SizeOf
<1>3. QED
  BY <1>1, <1>2

LEMMA SizesAreNat ==
  ASSUME DocumentTypeOK
  PROVE  \A d \in Files : SizeOf(d) \in Nat
  BY SizeOfIsSum, SizeIsNat DEF DocumentTypeOK

LEMMA BytesAre ==
  ASSUME NEW ds \in SUBSET Files
  PROVE  Bytes(ds) = SumFunctionOnSet([d \in Files |-> SizeOf(d)], ds)
  BY Zenon DEF Bytes, SizeOf

LEMMA BytesIsNat ==
  ASSUME DocumentTypeOK, NEW ds \in SUBSET Files
  PROVE  Bytes(ds) \in Nat
<1>1. IsFiniteSet(ds)
  BY DocumentAssumption, FS_Subset
<1>2. \A d \in ds : [e \in Files |-> SizeOf(e)][d] \in Nat
  BY SizesAreNat
<1>3. QED
  BY <1>1, <1>2, BytesAre, SumIsNat

(* A document without versions may come to a project; what is there stays. *)
LEMMA CreateDocumentStep ==
  ASSUME DocumentInv, NEW d \in Files, NEW p \in Sites,
         NEW status \in {"draft", "active", "archived"}, CreateDocument(d, p, status)
  PROVE  DocumentInv'
<1> USE DEF DocumentInv, DocumentTypeOK
<1> DEFINE row == [NoDocument EXCEPT !.project = p, !.status = status]
<1>1. /\ documents' = [documents EXCEPT ![d] = row]
      /\ row \in Document /\ row.project = p /\ row.current = 0
      /\ documents[d] = NoDocument /\ NoDocument.project = NULL
      /\ versions' = versions
  BY DEF CreateDocument, NoDocument, Document
<1> HIDE DEF row
<1>2. versions[d] = <<>>
  <2>1. Len(versions[d]) = 0
    BY <1>1 DEF WithinQuota, NoDocument
  <2>2. QED
    BY <2>1
<1>3. DocumentTypeOK'
  BY <1>1
<1>4. \A ds \in SUBSET Files : Bytes(ds)' = Bytes(ds)
  BY <1>1, Zenon DEF Bytes
<1>5. ASSUME NEW q \in Sites
      PROVE  Bytes(InProject(q)') = Bytes(InProject(q))
  <2> DEFINE ds == InProject(q)
             es == InProject(q)'
  <2>1. es = ds \/ es = ds \cup {d}
    <3>1. \A e \in Files \ {d} : e \in es <=> e \in ds
      BY <1>1 DEF InProject
    <3>2. es \subseteq Files /\ ds \subseteq Files /\ d \notin ds
      BY <1>1, DocumentAssumption DEF InProject
    <3> HIDE DEF es, ds
    <3>3. CASE d \in es
      <4>1. \A e : e \in es <=> e \in ds \cup {d}
        BY <3>1, <3>2, <3>3
      <4>2. QED
        BY <4>1
    <3>4. CASE d \notin es
      <4>1. \A e : e \in es <=> e \in ds
        BY <3>1, <3>2, <3>4
      <4>2. QED
        BY <4>1
    <3>5. QED
      BY <3>3, <3>4
  <2>2. ds \in SUBSET Files /\ es \in SUBSET Files
    BY DEF InProject
  <2>3. d \notin ds
    BY <1>1, DocumentAssumption DEF InProject
  <2> DEFINE f == [e \in Files |-> SizeOf(e)]
  <2>4. /\ Bytes(ds) = SumFunctionOnSet(f, ds)
        /\ Bytes(es) = SumFunctionOnSet(f, es)
    BY <2>2, BytesAre
  <2>5. f[d] = 0 /\ \A e \in Files : f[e] \in Int
    BY <1>2, SizesAreNat DEF SizeOf
  <2>6. IsFiniteSet(ds)
    BY <2>2, DocumentAssumption, FS_Subset
  <2> HIDE DEF f, ds, es
  <2>7. SumFunctionOnSet(f, ds \cup {d}) = f[d] + SumFunctionOnSet(f, ds)
    BY <2>2, <2>3, <2>5, <2>6, SumAdd
  <2>8. SumFunctionOnSet(f, ds) \in Int
    BY <2>2, <2>5, <2>6, SumIsInt
  <2>9. SumFunctionOnSet(f, es) = SumFunctionOnSet(f, ds)
    <3>1. CASE es = ds
      BY <3>1
    <3>2. CASE es = ds \cup {d}
      <4>1. SumFunctionOnSet(f, ds \cup {d}) = SumFunctionOnSet(f, ds)
        BY <2>5, <2>7, <2>8
      <4>2. QED
        BY <3>2, <4>1
    <3>3. QED
      BY <2>1, <3>1, <3>2
  <2>10. QED
    BY <2>4, <2>9 DEF ds, es
<1>6. WithinQuota'
  <2>1. ASSUME NEW q \in Sites PROVE Bytes(InProject(q))' <= projectQuotaBytes
    <3>1. Bytes(InProject(q))' = Bytes(InProject(q)')
      <4>1. InProject(q)' \in SUBSET Files
        BY DEF InProject
      <4>2. QED
        BY <1>1, <4>1, Zenon DEF Bytes
    <3>2. QED
      BY <1>5, <3>1 DEF WithinQuota
  <2>2. Bytes(Files)' <= organizationQuotaBytes
    BY <1>4 DEF WithinQuota
  <2>3. \A e \in Files : documents'[e].current = Len(versions'[e])
    BY <1>1, <1>2 DEF WithinQuota
  <2>4. QED
    BY <2>1, <2>2, <2>3 DEF WithinQuota
<1>7. QED
  BY <1>3, <1>6

(* An upload adds its size to the sums its document is in.                 *)
LEMMA AddVersionStep ==
  ASSUME DocumentInv, NEW d \in Files, NEW size \in Sizes, AddVersion(d, size)
  PROVE  DocumentInv'
<1> USE DEF DocumentInv, DocumentTypeOK
<1>0. size \in Nat
  BY DocumentAssumption
<1>1. /\ versions' = [versions EXCEPT ![d] = Append(@, size)]
      /\ documents[d] # NoDocument
      /\ documents' = [documents EXCEPT ![d].status = "active",
                                        ![d].current = Len(versions[d]) + 1]
  BY DEF AddVersion
<1>2. /\ versions' \in [Files -> Seq(Nat)]
      /\ Len(versions'[d]) = Len(versions[d]) + 1 /\ Len(versions[d]) \in Nat
      /\ \A e \in Files \ {d} : versions'[e] = versions[e]
  BY <1>0, <1>1
<1> DEFINE row == [documents[d] EXCEPT !.status = "active",
                                       !.current = Len(versions[d]) + 1]
<1>a. documents[d] \in Document
  BY <1>1
<1>b. /\ row \in Document /\ row.project = documents[d].project
      /\ row.current = Len(versions[d]) + 1
  <2> DEFINE n == Len(versions[d]) + 1
  <2>1. n \in Nat /\ documents[d].archived \in BOOLEAN
    BY <1>2, <1>a DEF Document
  <2> HIDE DEF n
  <2> DEFINE r == documents[d]
  <2>2. row = [r EXCEPT !.status = "active", !.current = n]
    BY DEF row, n
  <2>3. PICK p \in Sites, was \in {"draft", "active", "archived"},
             gone \in BOOLEAN, m \in Nat :
            r = [project |-> p, status |-> was, archived |-> gone, current |-> m]
    BY <1>a DEF Document
  <2> HIDE DEF r
  <2> DEFINE s == [r EXCEPT !.status = "active"]
  <2>4. s = [project |-> p, status |-> "active", archived |-> gone, current |-> m]
    BY <2>3
  <2>5. row = [s EXCEPT !.current = n]
    BY <2>2
  <2> HIDE DEF s
  <2>6. row = [project |-> p, status |-> "active", archived |-> gone, current |-> n]
    BY <2>4, <2>5
  <2>7. row \in Document /\ row.project = r.project /\ row.current = n
    BY <2>1, <2>3, <2>6 DEF Document
  <2>8. QED
    BY <2>7 DEF n, r
<1>c. documents' = [documents EXCEPT ![d] = row]
  BY <1>1
<1> HIDE DEF row
<1>3. /\ documents'[d] \in Document
      /\ documents'[d].project = documents[d].project
      /\ documents'[d].current = Len(versions[d]) + 1
      /\ \A e \in Files \ {d} : documents'[e] = documents[e]
      /\ documents' \in [Files -> Document \cup {NoDocument}]
  BY <1>b, <1>c
<1>4. DocumentTypeOK'
  BY <1>2, <1>3
<1>5. /\ SizeOf(d)' = SizeOf(d) + size
      /\ \A e \in Files \ {d} : SizeOf(e)' = SizeOf(e)
  <2>1. SizeOf(d) = SumFunctionOnSet(versions[d], DOMAIN versions[d])
    BY SizeOfIsSum
  <2>2. versions'[d] = Append(versions[d], size) /\ versions[d] \in Seq(Nat)
    BY <1>1
  <2>3. versions'[d] # <<>>
    <3>1. Len(versions'[d]) # 0
      BY <1>2
    <3>2. QED
      BY <3>1
  <2>4. SizeOf(d)' = SumFunctionOnSet(versions'[d], DOMAIN versions'[d])
    BY <2>3 DEF SizeOf
  <2>5. SumFunctionOnSet(versions'[d], DOMAIN versions'[d]) =
            size + SumFunctionOnSet(versions[d], DOMAIN versions[d])
    BY <1>0, <2>2, SizeGrows
  <2>6. SizeOf(d) \in Nat
    BY SizesAreNat
  <2>7. SizeOf(d)' = SizeOf(d) + size
    BY <1>0, <2>1, <2>4, <2>5, <2>6
  <2>8. QED
    BY <1>2, <2>7 DEF SizeOf
<1> DEFINE f == [e \in Files |-> SizeOf(e)]
           g == [e \in Files |-> SizeOf(e)']
<1>6. /\ \A e \in Files : f[e] \in Int /\ g[e] \in Int
      /\ \A e \in Files \ {d} : g[e] = f[e]
      /\ g[d] = f[d] + size
  BY <1>0, <1>5, SizesAreNat
<1>7. ASSUME NEW ds \in SUBSET Files
      PROVE  Bytes(ds)' = IF d \in ds THEN Bytes(ds) + size ELSE Bytes(ds)
  <2>1. Bytes(ds) = SumFunctionOnSet(f, ds)
    BY BytesAre
  <2>2. Bytes(ds)' = SumFunctionOnSet(g, ds)
    BY Zenon DEF Bytes, SizeOf
  <2>3. IsFiniteSet(ds)
    BY DocumentAssumption, FS_Subset
  <2> HIDE DEF f, g
  <2>4. SumFunctionOnSet(f, ds) \in Int
    BY <1>6, <2>3, SumIsInt
  <2>5. CASE d \in ds
    <3>1. SumFunctionOnSet(g, ds) = SumFunctionOnSet(f, ds) + g[d] - f[d]
      BY <1>6, <2>3, <2>5, SumChange
    <3>2. QED
      BY <1>0, <1>6, <2>1, <2>2, <2>4, <2>5, <3>1
  <2>6. CASE d \notin ds
    <3>1. \A e \in ds : f[e] = g[e]
      BY <1>6, <2>6
    <3>2. SumFunctionOnSet(f, ds) = SumFunctionOnSet(g, ds)
      BY <2>3, <3>1, SumSame
    <3>3. QED
      BY <2>1, <2>2, <2>6, <3>2
  <2>7. QED
    BY <2>5, <2>6
<1>8. \A p \in Sites : InProject(p)' = InProject(p) /\ InProject(p) \in SUBSET Files
  BY <1>3 DEF InProject
<1>9. ASSUME NEW p \in Sites PROVE Bytes(InProject(p))' <= projectQuotaBytes
  <2> DEFINE ds == InProject(p)
  <2>1. Bytes(InProject(p))' =
            IF d \in ds THEN Bytes(ds) + size ELSE Bytes(ds)
    BY <1>7, <1>8
  <2>2. d \in ds => Bytes(ds) + size <= projectQuotaBytes
    BY DEF InProject, AddVersion, Fits
  <2>3. QED
    BY <2>1, <2>2 DEF WithinQuota
<1>10. Bytes(Files)' <= organizationQuotaBytes
  BY <1>7 DEF AddVersion, Fits
<1>11. \A e \in Files : documents'[e].current = Len(versions'[e])
  BY <1>2, <1>3 DEF WithinQuota
<1>12. QED
  BY <1>4, <1>9, <1>10, <1>11 DEF WithinQuota

(* A change of status or of the archive mark moves no bytes.               *)
LEMMA PatchDocumentStep ==
  ASSUME DocumentInv, NEW d \in Files, NEW status \in {"draft", "active", "archived"},
         NEW gone \in BOOLEAN, PatchDocument(d, status, gone)
  PROVE  DocumentInv'
<1> USE DEF DocumentInv, DocumentTypeOK
<1> DEFINE r == documents[d]
           row == [r EXCEPT !.status = status, !.archived = gone]
<1>1. /\ documents' = [documents EXCEPT ![d] = row]
      /\ r \in Document
      /\ versions' = versions
  BY DEF PatchDocument
<1>2. /\ row \in Document /\ row.project = r.project /\ row.current = r.current
  <2>1. PICK p \in Sites, was \in {"draft", "active", "archived"},
             there \in BOOLEAN, m \in Nat :
            r = [project |-> p, status |-> was, archived |-> there, current |-> m]
    BY <1>1 DEF Document
  <2> DEFINE s == [r EXCEPT !.status = status]
  <2>2. row = [s EXCEPT !.archived = gone]
    OBVIOUS
  <2> HIDE DEF r, row
  <2>3. s = [project |-> p, status |-> status, archived |-> there, current |-> m]
    BY <2>1
  <2> HIDE DEF s
  <2>4. row = [project |-> p, status |-> status, archived |-> gone, current |-> m]
    BY <2>2, <2>3
  <2>5. QED
    BY <2>1, <2>4 DEF Document
<1> HIDE DEF row
<1>3. /\ documents' \in [Files -> Document \cup {NoDocument}]
      /\ \A e \in Files : /\ documents'[e].project = documents[e].project
                         /\ documents'[e].current = documents[e].current
  BY <1>1, <1>2
<1>4. \A ds \in SUBSET Files : Bytes(ds)' = Bytes(ds)
  BY <1>1, Zenon DEF Bytes
<1>5. \A p \in Sites : InProject(p)' = InProject(p) /\ InProject(p) \in SUBSET Files
  BY <1>3 DEF InProject
<1>6. \A p \in Sites : Bytes(InProject(p))' = Bytes(InProject(p))
  BY <1>1, <1>5, Zenon DEF Bytes
<1>7. QED
  BY <1>1, <1>3, <1>4, <1>6 DEF WithinQuota

-----------------------------------------------------------------------------
(* Contracts: the parties are collected in the draft, then all of them are  *)
(* asked, and the contract comes into force with the last answer.          *)

Marks == {NULL, "party", "pending"} \cup Signatures

ContractTypeOK ==
    /\ contracts \in [Contracts ->
           [status : {"none", "draft", "awaiting_signatures", "active"},
            document : Files \cup {NULL}]]
    /\ signatures \in [Contracts -> [Parties -> Marks]]

StageOf(status, row) ==
    /\ status \in {"none", "draft"} =>
           \A p \in Parties : row[p] \in {NULL, "party"}
    /\ status = "awaiting_signatures" =>
           /\ \E p \in Parties : row[p] # NULL
           /\ \A p \in Parties : row[p] \in {NULL, "pending"} \cup Signatures
    /\ status = "active" =>
           /\ \E p \in Parties : row[p] # NULL
           /\ \A p \in Parties : row[p] \in {NULL} \cup Signatures

ContractInv ==
    /\ ContractTypeOK
    /\ \A c \in Contracts : StageOf(contracts[c].status, signatures[c])

LEMMA StagesAreSigned == ASSUME ContractInv PROVE ActiveIsSigned
<1> SUFFICES ASSUME NEW c \in Contracts
             PROVE  /\ contracts[c].status = "active" =>
                           /\ PartiesOf(c) # {}
                           /\ \A p \in PartiesOf(c) : signatures[c][p] \in Signatures
                    /\ (\E p \in Parties : signatures[c][p] \in Signatures) =>
                           \A p \in PartiesOf(c) : signatures[c][p] # "party"
  BY DEF ActiveIsSigned
<1>1. /\ contracts[c].status \in {"none", "draft", "awaiting_signatures", "active"}
      /\ StageOf(contracts[c].status, signatures[c])
  BY DEF ContractInv, ContractTypeOK
<1>2. QED
  BY <1>1, DocumentAssumption DEF StageOf, PartiesOf

LEMMA CreateContractStep ==
  ASSUME ContractInv, NEW c \in Contracts, NEW d \in Files \cup {NULL},
         CreateContract(c, d)
  PROVE  ContractInv'
<1>1. /\ contracts' = [contracts EXCEPT ![c] = [status |-> "draft", document |-> d]]
      /\ contracts[c].status = "none"
      /\ signatures' = signatures
  BY DEF CreateContract, NoContract
<1>2. ContractTypeOK'
  BY <1>1 DEF ContractInv, ContractTypeOK
<1>3. \A b \in Contracts : StageOf(contracts'[b].status, signatures'[b])
  BY <1>1 DEF ContractInv, ContractTypeOK, StageOf
<1>4. QED
  BY <1>2, <1>3 DEF ContractInv

LEMMA AddPartyStep ==
  ASSUME ContractInv, NEW c \in Contracts, NEW p \in Parties,
         AddContractParty(c, p)
  PROVE  ContractInv'
<1>1. /\ signatures' = [signatures EXCEPT ![c][p] = "party"]
      /\ contracts[c].status = "draft"
      /\ contracts' = contracts
  BY DEF AddContractParty, PartiesMayChange
<1>2. ContractTypeOK'
  BY <1>1 DEF ContractInv, ContractTypeOK, Marks
<1>3. \A b \in Contracts : StageOf(contracts'[b].status, signatures'[b])
  BY <1>1 DEF ContractInv, ContractTypeOK, StageOf
<1>4. QED
  BY <1>2, <1>3 DEF ContractInv

LEMMA RequestSignaturesStep ==
  ASSUME ContractInv, NEW c \in Contracts, RequestContractSignatures(c)
  PROVE  ContractInv'
<1> DEFINE row == [p \in Parties |-> IF signatures[c][p] = NULL THEN NULL
                                     ELSE "pending"]
<1>1. /\ signatures' = [signatures EXCEPT ![c] = row]
      /\ contracts' = [contracts EXCEPT ![c].status = "awaiting_signatures"]
      /\ \E p \in Parties : signatures[c][p] # NULL
  BY DEF RequestContractSignatures, PartiesOf
<1>2. ContractTypeOK'
  BY <1>1 DEF ContractInv, ContractTypeOK, Marks
<1>3. StageOf("awaiting_signatures", row)
  BY <1>1, DocumentAssumption DEF StageOf
<1>4. \A b \in Contracts : StageOf(contracts'[b].status, signatures'[b])
  BY <1>1, <1>3 DEF ContractInv, ContractTypeOK
<1>5. QED
  BY <1>2, <1>4 DEF ContractInv

LEMMA SignStep ==
  ASSUME ContractInv, NEW c \in Contracts, NEW p \in Parties,
         NEW hash \in Signatures, RecordManualSignature(c, p, hash)
  PROVE  ContractInv'
<1> DEFINE row == [signatures[c] EXCEPT ![p] = hash]
<1>1. /\ signatures' = [signatures EXCEPT ![c] = row]
      /\ contracts' = [contracts EXCEPT ![c].status = StatusOf(row)]
      /\ StageOf("awaiting_signatures", signatures[c])
  <2>1. /\ signatures' = [signatures EXCEPT ![c] = row] 
        /\ contracts' = [contracts EXCEPT ![c].status = StatusOf(signatures'[c])]
        /\ contracts[c].status = "awaiting_signatures"
    BY DEF RecordManualSignature
  <2>2. signatures'[c] = row
    BY <2>1 DEF ContractInv, ContractTypeOK
  <2>3. QED
    BY <2>1, <2>2 DEF ContractInv
<1>2. /\ row \in [Parties -> Marks] /\ row[p] = hash
      /\ \A q \in Parties \ {p} : row[q] = signatures[c][q]
  BY DEF ContractInv, ContractTypeOK, Marks
<1>3. StatusOf(row) \in {"awaiting_signatures", "active"}
  BY DEF StatusOf
<1>4. StageOf(StatusOf(row), row)
  <2>1. \A q \in Parties : row[q] \in {NULL, "pending"} \cup Signatures
    BY <1>1, <1>2 DEF StageOf
  <2>2. row[p] # NULL
    BY <1>2, DocumentAssumption
  <2> HIDE DEF row
  <2>3. StatusOf(row) = "active" => \A q \in Parties : row[q] # "pending"
    BY DEF StatusOf
  <2>4. QED
    BY <1>3, <2>1, <2>2, <2>3 DEF StageOf
<1> HIDE DEF row
<1>5. ContractTypeOK'
  BY <1>1, <1>2, <1>3 DEF ContractInv, ContractTypeOK
<1>6. \A b \in Contracts : StageOf(contracts'[b].status, signatures'[b])
  BY <1>1, <1>4 DEF ContractInv, ContractTypeOK
<1>7. QED
  BY <1>5, <1>6 DEF ContractInv

LEMMA ContractStart == ASSUME DocumentInit PROVE DocumentInv /\ ContractInv
<1>1. ContractInv
  BY DEF DocumentInit, ContractInv, ContractTypeOK, Marks, StageOf, NoContract
<1>2. DocumentTypeOK /\ \A d \in Files : SizeOf(d) = 0
  BY DEF DocumentInit, DocumentTypeOK, SizeOf
<1>3. \A ds \in SUBSET Files : Bytes(ds) = 0
  <2> SUFFICES ASSUME NEW ds \in SUBSET Files PROVE Bytes(ds) = 0
    OBVIOUS
  <2>1. IsFiniteSet(ds) /\ \A d \in ds : [e \in Files |-> SizeOf(e)][d] = 0
    BY <1>2, DocumentAssumption, FS_Subset
  <2>2. QED
    BY <2>1, BytesAre, SumOfZeros
<1>4. WithinQuota
  BY <1>3, DocumentAssumption DEF DocumentInit, WithinQuota, InProject, NoDocument
<1>5. QED
  BY <1>1, <1>2, <1>4 DEF DocumentInv

LEMMA DocumentStep ==
  ASSUME DocumentInv, [DocumentNext]_documentVars
  PROVE  DocumentInv'
<1>1. CASE UNCHANGED <<documents, versions>>
  <2>1. \A ds \in SUBSET Files : Bytes(ds)' = Bytes(ds)
    BY <1>1, Zenon DEF Bytes
  <2>2. \A p \in Sites : InProject(p)' = InProject(p)
    BY <1>1 DEF InProject
  <2>3. \A p \in Sites : Bytes(InProject(p))' = Bytes(InProject(p))
    BY <1>1, <2>2, Zenon DEF Bytes
  <2>4. QED
    BY <1>1, <2>1, <2>3 DEF DocumentInv, DocumentTypeOK, WithinQuota
<1>2. CASE \E d \in Files :
              \/ \E status \in {"draft", "active", "archived"} :
                    \/ \E p \in Sites : CreateDocument(d, p, status)
                    \/ \E gone \in BOOLEAN : PatchDocument(d, status, gone)
              \/ \E size \in Sizes : AddVersion(d, size)
  BY <1>2, CreateDocumentStep, PatchDocumentStep, AddVersionStep
<1>3. ASSUME ~ \E d \in Files :
              \/ \E status \in {"draft", "active", "archived"} :
                    \/ \E p \in Sites : CreateDocument(d, p, status)
                    \/ \E gone \in BOOLEAN : PatchDocument(d, status, gone)
              \/ \E size \in Sizes : AddVersion(d, size)
      PROVE  UNCHANGED <<documents, versions>>
  BY <1>3 DEF DocumentNext, documentVars, CreateContract, AddContractParty,
              RequestContractSignatures, RecordManualSignature, CreateValuation
<1>4. QED
  BY <1>1, <1>2, <1>3

LEMMA ContractStep ==
  ASSUME ContractInv, [DocumentNext]_documentVars
  PROVE  ContractInv'
<1>1. CASE UNCHANGED <<contracts, signatures>>
  BY <1>1 DEF ContractInv, ContractTypeOK
<1>2. CASE \E c \in Contracts :
              \/ \E d \in Files \cup {NULL} : CreateContract(c, d)
              \/ \E p \in Parties :
                    \/ AddContractParty(c, p)
                    \/ \E hash \in Signatures : RecordManualSignature(c, p, hash)
              \/ RequestContractSignatures(c)
  BY <1>2, CreateContractStep, AddPartyStep, SignStep, RequestSignaturesStep
<1>3. ASSUME ~ \E c \in Contracts :
              \/ \E d \in Files \cup {NULL} : CreateContract(c, d)
              \/ \E p \in Parties :
                    \/ AddContractParty(c, p)
                    \/ \E hash \in Signatures : RecordManualSignature(c, p, hash)
              \/ RequestContractSignatures(c)
      PROVE  UNCHANGED <<contracts, signatures>>
  BY <1>3 DEF DocumentNext, documentVars, CreateDocument, PatchDocument,
              AddVersion, CreateValuation
<1>4. QED
  BY <1>1, <1>2, <1>3

\* Through uploads, moves to the archive, contracts and signatures in every
\* order: what a project and the organisation store is within their quotas, and
\* a contract in force is one that every party has signed.
THEOREM DocumentsAreSound == DocumentSpec => []DocumentsSound
<1>1. DocumentInv /\ ContractInv => DocumentsSound
  BY StagesAreSigned DEF DocumentInv, DocumentsSound
<1>2. QED
  BY <1>1, ContractStart, DocumentStep, ContractStep, PTL DEF DocumentSpec

-----------------------------------------------------------------------------
(* The pages of the marketplace.  A listing keeps the instant at which it  *)
(* was first published, so that its place among the listings never changes *)
(* and whoever goes through them in that order cannot meet one again or    *)
(* step over one.                                                          *)

Place == [at : Nat, id : Nat]

ListingRow ==
    [status : {"none", "draft", "published"}, publishedAt : Nat \cup {NULL},
     closesAt : Int \cup {NULL}]

OnPages == Range(reader.shown)

\* A listing that is published, or was when it was shown, has its place.
Placed(l) == listings[l].publishedAt # NULL

ReaderInv ==
    /\ reader \in [cursor : Place \cup {NULL}, shown : Seq(Listings), finished : BOOLEAN]
    /\ \A l \in OnPages : Placed(l)
    /\ throughout \subseteq Listed

\* The reader has seen what is not behind the cursor, and nothing behind it.
CursorInv ==
    /\ ~reader.finished =>
          /\ reader.cursor = NULL => reader.shown = <<>>
          /\ reader.cursor # NULL =>
                /\ \A l \in OnPages : ~Before(reader.cursor, PlaceOf(l))
                /\ \A l \in throughout : l \in OnPages \/ Before(reader.cursor, PlaceOf(l))

HubInv ==
    /\ now \in Nat
    /\ listings \in [Listings -> ListingRow]
    /\ \A l \in Listings : listings[l].status = "published" => Placed(l)
    /\ ReaderInv
    /\ CursorInv
    /\ PagesMissNothing

LEMMA PlaceIsPlace ==
  ASSUME NEW l \in Listings, listings[l] \in ListingRow, Placed(l)
  PROVE  PlaceOf(l) \in Place
BY HubAssumption DEF ListingRow, Placed, PlaceOf, Place

\* Of listings that have their places one comes before all the others.
LEMMA FirstExists ==
  ASSUME NEW S \in SUBSET Listings, S # {},
         listings \in [Listings -> ListingRow], \A l \in S : Placed(l)
  PROVE  \E l \in S : \A m \in S \ {l} : Before(PlaceOf(l), PlaceOf(m))
<1> DEFINE At(l) == listings[l].publishedAt
           Times == {n \in Nat : \E l \in S : At(l) = n}
<1>1. \A l \in S : At(l) \in Nat /\ l \in Nat
  BY HubAssumption DEF ListingRow, Placed
<1>2. IsFiniteSet(S) /\ \A T \in SUBSET S : IsFiniteSet(T)
  BY HubAssumption, FS_Subset
<1>3. IsFiniteSet(Times)
  <2> DEFINE at == [l \in S |-> At(l)]
  <2>1. at \in [S -> Times]
    BY <1>1
  <2>2. \A n \in Times : \E l \in S : at[l] = n
    OBVIOUS
  <2> HIDE DEF at, Times
  <2>3. at \in Surjection(S, Times)
    BY <2>1, <2>2 DEF Surjection
  <2>4. QED
    BY <1>2, <2>3, FS_Surjection
<1>4. Times # {} /\ \A n \in Times : n \in Int
  BY <1>1
<1> HIDE DEF Times
<1>5. PICK n \in Times : \A k \in Times : k <= n
  BY <1>3, <1>4, LargestExists
<1> DEFINE Latest == {l \in S : At(l) = n}
<1>6. Latest # {} /\ IsFiniteSet(Latest) /\ \A l \in Latest : l \in Int
  BY <1>1, <1>2, <1>5 DEF Times
<1>7. PICK l \in Latest : \A m \in Latest : m <= l
  <2> HIDE DEF Latest
  <2>1. QED
    BY <1>6, LargestExists
<1>8. ASSUME NEW m \in S \ {l} PROVE Before(PlaceOf(l), PlaceOf(m))
  <2>1. At(m) \in Times /\ At(m) \in Nat /\ n \in Nat /\ At(l) = n /\ m \in Nat /\ l \in Nat
    BY <1>1, <1>5, <1>7, <1>8 DEF Times
  <2>2. At(m) <= n
    BY <1>5, <2>1
  <2>3. At(m) = n => m < l
    BY <1>7, <1>8, <2>1
  <2>4. At(l) > At(m) \/ (At(l) = At(m) /\ l > m)
    BY <2>1, <2>2, <2>3
  <2>5. QED
    BY <2>4 DEF Before, PlaceOf
<1>9. QED
  BY <1>7, <1>8

LEMMA OneAlone ==
  ASSUME NEW x
  PROVE  SetToSeq({}) = <<>> /\ SetToSeq({x}) = <<x>>
<1>1. Cardinality({}) = 0 /\ Cardinality({x}) = 1
  BY FS_EmptySet, FS_Singleton
<1>2. SetToSeq({}) = <<>>
  <2>1. <<>> \in [1 .. 0 -> {}] /\ IsInjective(<<>>)
    BY DEF IsInjective
  <2>2. SetToSeq({}) \in [1 .. 0 -> {}]
    BY <1>1, <2>1 DEF SetToSeq
  <2>3. QED
    BY <2>2
<1>3. SetToSeq({x}) = <<x>>
  <2>1. <<x>> \in [1 .. 1 -> {x}] /\ IsInjective(<<x>>)
    BY DEF IsInjective
  <2>2. SetToSeq({x}) \in [1 .. 1 -> {x}]
    BY <1>1, <2>1 DEF SetToSeq
  <2>3. QED
    BY <2>2
<1>4. QED
  BY <1>2, <1>3

Behind == {l \in Listed : reader.cursor = NULL \/ Before(reader.cursor, PlaceOf(l))}
Firsts == {l \in Behind : \A m \in Behind \ {l} : Before(PlaceOf(l), PlaceOf(m))}

\* A page shows one listing, the first behind the cursor, or none is left.
LEMMA PageShows ==
  ASSUME HubInv
  PROVE  \/ Behind = {} /\ Firsts = {}
         \/ \E l \in Behind :
               /\ Firsts = {l}
               /\ \A m \in Behind \ {l} : Before(PlaceOf(l), PlaceOf(m))
<1>1. Behind \in SUBSET Listings /\ \A l \in Behind : Placed(l) /\ PlaceOf(l) \in Place
  BY PlaceIsPlace DEF Behind, Listed, HubInv
<1>2. CASE Behind # {}
  <2>1. PICK l \in Behind : \A m \in Behind \ {l} : Before(PlaceOf(l), PlaceOf(m))
    BY <1>1, <1>2, FirstExists DEF HubInv
  <2>2. l \in Firsts
    BY <2>1 DEF Firsts
  <2>3. ASSUME NEW m \in Firsts PROVE m = l
    <3> SUFFICES ASSUME m # l PROVE FALSE
      OBVIOUS
    <3>1. Before(PlaceOf(l), PlaceOf(m)) /\ Before(PlaceOf(m), PlaceOf(l))
      BY <2>1, <2>3 DEF Firsts
    <3>2. PlaceOf(l) \in Place /\ PlaceOf(m) \in Place
      BY <1>1, <2>3 DEF Firsts
    <3>3. QED
      BY <3>1, <3>2 DEF Before, Place
  <2>4. QED
    BY <2>1, <2>2, <2>3
<1>3. QED
  BY <1>2 DEF Firsts

LEMMA ShownAppended ==
  ASSUME NEW l \in Listings, reader.shown \in Seq(Listings),
         reader'.shown = Append(reader.shown, l)
  PROVE  /\ OnPages' = OnPages \cup {l}
         /\ reader'.shown \in Seq(Listings)
         /\ l \notin OnPages /\ IsInjective(reader.shown) => IsInjective(reader'.shown)
<1> DEFINE n == Len(reader.shown)
<1>1. /\ n \in Nat
      /\ DOMAIN reader.shown = 1 .. n
      /\ DOMAIN reader'.shown = 1 .. n + 1
      /\ \A i \in 1 .. n : reader'.shown[i] = reader.shown[i]
      /\ reader'.shown[n + 1] = l
      /\ reader'.shown \in Seq(Listings)
  OBVIOUS
<1>2. 1 .. n + 1 = (1 .. n) \cup {n + 1}
  BY <1>1
<1>3. OnPages' = OnPages \cup {l}
  <2>1. \A x : x \in OnPages' <=> \E i \in (1 .. n) \cup {n + 1} : x = reader'.shown[i]
    BY <1>1, <1>2 DEF OnPages, Range
  <2>2. \A x : x \in OnPages <=> \E i \in 1 .. n : x = reader.shown[i]
    BY <1>1 DEF OnPages, Range
  <2>3. QED
    BY <1>1, <2>1, <2>2
<1>4. ASSUME l \notin OnPages, IsInjective(reader.shown) PROVE IsInjective(reader'.shown)
  <2>1. \A i \in 1 .. n : reader.shown[i] # l
    BY <1>1, <1>4 DEF OnPages, Range
  <2>2. QED
    BY <1>1, <1>2, <1>4, <2>1 DEF IsInjective
<1>5. QED
  BY <1>1, <1>3, <1>4

LEMMA ReadStep ==
  ASSUME HubInv, ReadPage,
         throughout' = IF reader = FirstPage THEN Listed' ELSE throughout \cap Listed'
  PROVE  HubInv'
<1>1. /\ ~reader.finished
      /\ reader' = [cursor |-> IF Firsts = {} THEN NULL
                               ELSE PlaceOf(CHOOSE l \in Firsts : TRUE),
                    shown |-> reader.shown \o SetToSeq(Firsts),
                    finished |-> Behind = Firsts]
      /\ now' = now /\ listings' = listings /\ shownProject' = shownProject
  BY Zenon DEF ReadPage, Behind, Firsts
<1>2. Listed' = Listed
  BY <1>1 DEF Listed
<1>3. \A l : Placed(l)' = Placed(l) /\ PlaceOf(l)' = PlaceOf(l)
  BY <1>1 DEF Placed, PlaceOf
<1>4. throughout' \subseteq Listed /\ Listed \subseteq Listings
  BY <1>2 DEF HubInv, ReaderInv, Listed
<1>5. reader.shown \in Seq(Listings) /\ reader.cursor \in Place \cup {NULL}
  BY DEF HubInv, ReaderInv
<1>6. \A l \in Listed : Placed(l) /\ PlaceOf(l) \in Place
  BY <1>4, PlaceIsPlace DEF Listed, HubInv
\* What is shown all the while has been seen or is behind the cursor.
<1>7. \A l \in throughout' : l \in OnPages \/ l \in Behind
  <2>1. CASE reader.cursor = NULL
    BY <1>4, <2>1 DEF Behind
  <2>2. CASE reader.cursor # NULL
    <3>1. reader # FirstPage
      BY <2>2 DEF FirstPage
    <3>2. throughout' \subseteq throughout
      BY <3>1
    <3>3. QED
      BY <1>1, <1>4, <2>2, <3>2 DEF HubInv, CursorInv, Behind
  <2>3. QED
    BY <2>1, <2>2
<1>8. CASE Behind = {} /\ Firsts = {}
  <2>1. reader'.shown = reader.shown \o <<>> /\ reader'.finished = TRUE
        /\ reader'.cursor = NULL
    BY <1>1, <1>8, OneAlone
  <2>2. reader'.shown = reader.shown
    BY <1>5, <2>1
  <2>3. OnPages' = OnPages
    BY <2>2 DEF OnPages
  <2>4. reader' \in [cursor : Place \cup {NULL}, shown : Seq(Listings), finished : BOOLEAN]
    BY <1>1, <1>5, <1>8, <2>2
  <2>5. ReaderInv'
    BY <1>2, <1>3, <1>4, <2>3, <2>4 DEF HubInv, ReaderInv
  <2>6. CursorInv'
    BY <2>1 DEF CursorInv
  <2>7. throughout' \subseteq OnPages'
    BY <1>7, <1>8, <2>3
  <2>8. PagesMissNothing'
    BY <2>2, <2>7 DEF PagesMissNothing, HubInv, OnPages
  <2>9. QED
    BY <1>1, <1>3, <2>5, <2>6, <2>8 DEF HubInv
<1>9. ASSUME NEW l \in Behind, Firsts = {l},
             \A m \in Behind \ {l} : Before(PlaceOf(l), PlaceOf(m))
      PROVE  HubInv'
  <2>1. l \in Listings /\ l \in Listed /\ Placed(l) /\ PlaceOf(l) \in Place
    BY <1>4, <1>6 DEF Behind
  <2>2. /\ reader'.cursor = PlaceOf(l)
        /\ reader'.shown = reader.shown \o <<l>>
        /\ reader'.finished = (Behind = {l})
        /\ reader' = [cursor |-> reader'.cursor, shown |-> reader'.shown,
                      finished |-> reader'.finished]
    BY <1>1, <1>9, OneAlone
  <2>3. reader'.shown = Append(reader.shown, l)
    BY <1>5, <2>1, <2>2
  <2>4. reader'.cursor # NULL
    BY <2>1, <2>2, HubAssumption DEF Place
  <2>5. /\ OnPages' = OnPages \cup {l}
        /\ reader'.shown \in Seq(Listings)
        /\ l \notin OnPages /\ IsInjective(reader.shown) => IsInjective(reader'.shown)
    BY <1>5, <2>1, <2>3, ShownAppended
  <2>6. \A s \in OnPages : s \in Listings /\ Placed(s) /\ PlaceOf(s) \in Place
    <3>1. \A s \in OnPages : s \in Listings
      BY <1>5 DEF OnPages, Range
    <3>2. QED
      BY <3>1, PlaceIsPlace DEF HubInv, ReaderInv
  <2>7. \A s \in OnPages : s # l /\ ~Before(PlaceOf(l), PlaceOf(s))
    <3>1. CASE reader.cursor = NULL
      BY <1>1, <3>1 DEF HubInv, CursorInv, OnPages, Range
    <3>2. CASE reader.cursor # NULL
      <4> TAKE s \in OnPages
      <4>1. ~Before(reader.cursor, PlaceOf(s)) /\ Before(reader.cursor, PlaceOf(l))
        BY <1>1, <3>2 DEF HubInv, CursorInv, Behind
      <4>2. reader.cursor \in Place /\ PlaceOf(s) \in Place /\ PlaceOf(l) \in Place
        BY <1>5, <2>1, <2>6, <3>2
      <4>3. ~Before(PlaceOf(l), PlaceOf(s))
        BY <4>1, <4>2 DEF Before, Place
      <4>4. QED
        BY <4>1, <4>3
    <3>3. QED
      BY <3>1, <3>2
  <2>8. ReaderInv'
    <3>1. reader' \in [cursor : Place \cup {NULL}, shown : Seq(Listings), finished : BOOLEAN]
      BY <2>1, <2>2, <2>5
    <3>2. \A s \in OnPages' : Placed(s)'
      BY <1>3, <2>1, <2>5, <2>6
    <3>3. QED
      BY <1>2, <1>4, <3>1, <3>2 DEF ReaderInv
  <2>9. CursorInv'
    <3>1. \A s \in OnPages' : ~Before(PlaceOf(l), PlaceOf(s))
      <4>1. ~Before(PlaceOf(l), PlaceOf(l))
        BY <2>1 DEF Before, Place
      <4>2. QED
        BY <2>5, <2>7, <4>1
    <3>2. \A s \in throughout' : s \in OnPages' \/ Before(PlaceOf(l), PlaceOf(s))
      BY <1>7, <1>9, <2>5
    <3>3. QED
      BY <1>3, <2>2, <2>4, <3>1, <3>2 DEF CursorInv
  <2>10. PagesMissNothing'
    <3>1. IsInjective(reader'.shown)
      BY <2>5, <2>7 DEF HubInv, PagesMissNothing
    <3>2. reader'.finished => throughout' \subseteq OnPages'
      BY <1>7, <2>2, <2>5
    <3>3. QED
      BY <3>1, <3>2 DEF PagesMissNothing, OnPages
  <2>11. QED
    BY <1>1, <1>3, <2>8, <2>9, <2>10 DEF HubInv
<1>10. QED
  BY <1>8, <1>9, PageShows

\* Whatever else happens, listings that have a place keep it.
LEMMA OthersKeep ==
  ASSUME HubInv, now' \in Nat, listings' \in [Listings -> ListingRow],
         reader' = reader,
         \A l \in Listings :
            /\ Placed(l) => listings'[l].publishedAt = listings[l].publishedAt
            /\ listings'[l].status = "published" => listings'[l].publishedAt # NULL,
         throughout' = IF reader = FirstPage THEN Listed' ELSE throughout \cap Listed'
  PROVE  HubInv'
<1>1. OnPages' = OnPages /\ \A s \in OnPages : s \in Listings
  BY DEF OnPages, HubInv, ReaderInv, Range
<1>2. \A l \in Listings : Placed(l) => Placed(l)' /\ PlaceOf(l)' = PlaceOf(l)
  BY DEF Placed, PlaceOf
<1>3. throughout' \subseteq Listed'
  OBVIOUS
<1>4. throughout \subseteq Listings /\ \A l \in throughout : Placed(l)
  BY DEF HubInv, ReaderInv, Listed
<1>5. ReaderInv'
  BY <1>1, <1>2, <1>3 DEF HubInv, ReaderInv
<1>6. reader # FirstPage => throughout' \subseteq throughout
  OBVIOUS
<1>7. reader = FirstPage => reader.cursor = NULL /\ ~reader.finished /\ reader.shown = <<>>
  BY DEF FirstPage
<1>8. CursorInv'
  BY <1>1, <1>2, <1>4, <1>6, <1>7 DEF HubInv, ReaderInv, CursorInv
<1>9. PagesMissNothing'
  BY <1>6, <1>7 DEF HubInv, PagesMissNothing
<1>10. \A l \in Listings : listings'[l].status = "published" => Placed(l)'
  BY DEF Placed
<1>11. QED
  BY <1>5, <1>8, <1>9, <1>10 DEF HubInv

LEMMA UpsertListingStep ==
  ASSUME HubInv, NEW l \in Listings, NEW status \in ListingStatuses,
         NEW closesAt \in {NULL, MaxNow - 1}, UpsertListing(l, status, closesAt)
  PROVE  /\ listings' \in [Listings -> ListingRow]
         /\ \A m \in Listings :
               /\ Placed(m) => listings'[m].publishedAt = listings[m].publishedAt
               /\ listings'[m].status = "published" => listings'[m].publishedAt # NULL
<1> DEFINE row == [status |-> status, publishedAt |-> PublishedAt(listings[l], status),
                   closesAt |-> closesAt]
<1>1. listings' = [listings EXCEPT ![l] = row]
  BY DEF UpsertListing
<1>2. listings[l] \in ListingRow /\ now \in Nat /\ listings \in [Listings -> ListingRow]
  BY DEF HubInv
<1>3. PublishedAt(listings[l], status) \in Nat \cup {NULL}
  BY <1>2 DEF PublishedAt, ListingRow
<1>4. row \in ListingRow
  BY <1>3, HubAssumption DEF ListingRow, ListingStatuses
<1>5. Placed(l) => row.publishedAt = listings[l].publishedAt
  BY DEF Placed, PublishedAt
<1>6. row.status = "published" => row.publishedAt # NULL
  BY <1>2, HubAssumption DEF PublishedAt
<1> HIDE DEF row
<1>7. QED
  BY <1>1, <1>2, <1>4, <1>5, <1>6 DEF HubInv, Placed

LEMMA HubStart == ASSUME HubInit PROVE HubInv
<1>1. listings \in [Listings -> ListingRow]
      /\ \A l \in Listings : listings[l].status = "none"
  BY DEF HubInit, NoListing, ListingRow
<1>2. OnPages = {} /\ reader.shown = <<>> /\ reader.cursor = NULL /\ reader.finished = FALSE
  BY DEF HubInit, FirstPage, OnPages, Range
<1>3. reader \in [cursor : Place \cup {NULL}, shown : Seq(Listings), finished : BOOLEAN]
  BY DEF HubInit, FirstPage
<1>4. throughout = {} /\ now = 0
  BY DEF HubInit
<1>5. PagesMissNothing
  BY <1>2 DEF PagesMissNothing, IsInjective
<1>6. QED
  BY <1>1, <1>2, <1>3, <1>4, <1>5 DEF HubInv, ReaderInv, CursorInv

LEMMA HubNextKeeps == ASSUME HubInv, [HubNext]_hubVars PROVE HubInv'
<1> DEFINE Through ==
      throughout' = IF reader = FirstPage THEN Listed' ELSE throughout \cap Listed'
<1>1. ASSUME NEW l \in Listings, NEW status \in ListingStatuses,
             NEW closesAt \in {NULL, MaxNow - 1}, UpsertListing(l, status, closesAt), Through
      PROVE  HubInv'
  <2>1. now' = now /\ reader' = reader /\ now \in Nat
    BY <1>1 DEF UpsertListing, HubInv
  <2>2. QED
    BY <1>1, <2>1, UpsertListingStep, OthersKeep
<1>2. ASSUME now' \in Nat, listings' = listings, reader' = reader, Through PROVE HubInv'
  <2>1. listings' \in [Listings -> ListingRow]
    BY <1>2 DEF HubInv
  <2>2. \A l \in Listings :
            /\ Placed(l) => listings'[l].publishedAt = listings[l].publishedAt
            /\ listings'[l].status = "published" => listings'[l].publishedAt # NULL
    BY <1>2 DEF HubInv, Placed
  <2>3. QED
    BY <1>2, <2>1, <2>2, OthersKeep
<1>3. ASSUME NEW row, ProjectChanges(row), Through PROVE HubInv'
  BY <1>2, <1>3 DEF ProjectChanges, HubInv
<1>4. ASSUME NowPasses, Through PROVE HubInv'
  BY <1>2, <1>4 DEF NowPasses, HubInv
<1>5. ASSUME ReadPage, Through PROVE HubInv'
  BY <1>5, ReadStep
<1>6. ASSUME NEW k, NEW mode, NEW status, UpsertIntegration(k, mode, status), Through
      PROVE  HubInv'
  BY <1>2, <1>6 DEF UpsertIntegration, HubInv
<1>7. CASE UNCHANGED hubVars
  <2>1. /\ now' = now /\ listings' = listings /\ shownProject' = shownProject
        /\ reader' = reader /\ throughout' = throughout
    BY <1>7 DEF hubVars
  <2>2. OnPages' = OnPages /\ Listed' = Listed
        /\ \A l : Placed(l)' = Placed(l) /\ PlaceOf(l)' = PlaceOf(l)
    BY <2>1 DEF OnPages, Listed, Placed, PlaceOf
  <2>3. ReaderInv'
    BY <2>1, <2>2 DEF HubInv, ReaderInv
  <2>4. CursorInv'
    BY <2>1, <2>2 DEF HubInv, CursorInv
  <2>5. QED
    BY <2>1, <2>2, <2>3, <2>4 DEF HubInv, PagesMissNothing
<1>8. CASE HubNext
  <2>1. HubStep /\ Through
    BY <1>8 DEF HubNext
  <2> HIDE DEF Through
  <2>2. QED
    BY <2>1, <1>1, <1>3, <1>4, <1>5, <1>6 DEF HubStep
<1>9. QED
  BY <1>7, <1>8

\* Whatever the listings and whenever they are published, edited, paused and
\* closed, a reader misses none that is shown all the while and meets none twice.
THEOREM PagesAreComplete == HubSpec => []PagesMissNothing
<1>1. HubInv => PagesMissNothing
  BY DEF HubInv
<1>2. QED
  BY <1>1, HubStart, HubNextKeeps, PTL DEF HubSpec

-----------------------------------------------------------------------------
(* The limiter of requests.                                                *)

Instants == 0 .. MaxInstant

\* Requests admitted in a set of instants.
In(f, s) == SumFunctionOnSet(f, s)

Since(i) == {j \in Instants : i <= j}
Between(i, k) == {j \in Instants : i <= j /\ j < k}

\* Where the window that has not ended began.
Start == entry.resetAt - Window

\* Requests after the first one of the last window are fewer than the limit,
\* and so are those of the window before that can share a window's length
\* with this one.
LimiterInv ==
    /\ instant \in Instants
    /\ entry \in [count : Nat, resetAt : Nat]
    /\ admitted \in [Instants -> Nat]
    /\ \A j \in Instants : j > instant => admitted[j] = 0
    /\ WindowEnded =>
          /\ admitted[instant] = 0
          /\ \A i \in Instants : i + Window > instant => In(admitted, Since(i)) < Limit
    /\ ~WindowEnded =>
          /\ Start \in 0 .. instant
          /\ admitted[Start] > 0
          /\ In(admitted, Since(Start)) <= entry.count
          /\ In(admitted, Since(Start)) <= Limit
          /\ \A i \in Instants :
                i + Window > Start => In(admitted, Between(i, Start)) < Limit
    /\ LessThanTwiceTheLimit

LEMMA InstantsFinite == \A s \in SUBSET Instants : IsFiniteSet(s)
<1>1. 0 \in Int /\ MaxInstant \in Int
  BY LimiterAssumption
<1>2. IsFiniteSet(Instants)
  BY <1>1, FS_Interval DEF Instants
<1>3. QED
  BY <1>2, FS_Subset

LEMMA InIsNat ==
  ASSUME NEW f \in [Instants -> Nat], NEW s \in SUBSET Instants
  PROVE  In(f, s) \in Nat
<1>1. \A j \in s : f[j] \in Nat
  OBVIOUS
<1>2. QED
  BY <1>1, InstantsFinite, SumIsNat DEF In

LEMMA InGrows ==
  ASSUME NEW f \in [Instants -> Nat], NEW s \in SUBSET Instants, NEW r \in SUBSET s
  PROVE  In(f, r) <= In(f, s)
<1>1. \A j \in s : f[j] \in Nat
  OBVIOUS
<1>2. QED
  BY <1>1, InstantsFinite, SumGrows DEF In

LEMMA InSplit ==
  ASSUME NEW f \in [Instants -> Nat], NEW s \in SUBSET Instants, NEW r \in SUBSET s
  PROVE  In(f, s) = In(f, r) + In(f, s \ r)
<1>1. \A j \in s : f[j] \in Int
  OBVIOUS
<1>2. QED
  BY <1>1, InstantsFinite, SumSplit DEF In

LEMMA InTake ==
  ASSUME NEW f \in [Instants -> Nat], NEW s \in SUBSET Instants, NEW j \in s
  PROVE  In(f, s) = f[j] + In(f, s \ {j})
<1>1. \A k \in s : f[k] \in Int
  OBVIOUS
<1>2. QED
  BY <1>1, InstantsFinite, SumTake DEF In

LEMMA InSame ==
  ASSUME NEW f, NEW g, NEW s \in SUBSET Instants, \A j \in s : g[j] = f[j]
  PROVE  In(g, s) = In(f, s)
  BY InstantsFinite, SumSame DEF In

LEMMA InRises ==
  ASSUME NEW f \in [Instants -> Nat], NEW g \in [Instants -> Nat],
         NEW j \in Instants, g[j] = f[j] + 1,
         \A k \in Instants \ {j} : g[k] = f[k], NEW s \in SUBSET Instants
  PROVE  /\ j \in s => In(g, s) = In(f, s) + 1
         /\ j \notin s => In(g, s) = In(f, s)
<1>1. /\ g[j] = f[j] + 1
      /\ \A k \in Instants \ {j} : g[k] = f[k]
  OBVIOUS
<1>2. ASSUME j \notin s PROVE In(g, s) = In(f, s)
  <2>1. \A k \in s : g[k] = f[k]
    BY <1>1, <1>2
  <2>2. QED
    BY <2>1, InSame
<1>3. ASSUME j \in s PROVE In(g, s) = In(f, s) + 1
  <2>0. s \ {j} \in SUBSET Instants
    OBVIOUS
  <2>1. In(g, s) = g[j] + In(g, s \ {j}) /\ In(f, s) = f[j] + In(f, s \ {j})
    <3>1. In(g, s) = g[j] + In(g, s \ {j})
      BY <1>1, <1>3, InTake
    <3>2. In(f, s) = f[j] + In(f, s \ {j})
      BY <1>3, InTake
    <3>3. QED
      BY <3>1, <3>2
  <2>2. In(g, s \ {j}) = In(f, s \ {j})
    <3>1. \A k \in s \ {j} : g[k] = f[k]
      BY <1>1
    <3>2. QED
      BY <2>0, <3>1, InSame
  <2>3. In(f, s \ {j}) \in Nat
    BY <2>0, InIsNat
  <2>4. QED
    BY <1>1, <2>1, <2>2, <2>3
<1>4. QED
  BY <1>2, <1>3

\* A length of time that a window of its own cannot fill.
LEMMA TwoWindows ==
  ASSUME NEW f \in [Instants -> Nat], NEW start \in Instants, NEW i \in Instants,
         In(f, Since(start)) <= Limit,
         i + Window > start => In(f, Between(i, start)) < Limit,
         i + Window > start
  PROVE  In(f, Between(i, i + Window)) < 2 * Limit
<1>a. Limit \in Nat \ {0} /\ Window \in Nat \ {0} /\ Instants \subseteq Nat
  BY LimiterAssumption DEF Instants
<1> DEFINE all == Between(i, i + Window)
           old == all \cap Between(i, start)
<1>0. \A j \in all \ old : j \in Since(start)
  BY <1>a DEF Between, Since
<1>1. /\ all \in SUBSET Instants /\ old \in SUBSET all
      /\ all \ old \in SUBSET Since(start) /\ old \in SUBSET Between(i, start)
      /\ Between(i, start) \in SUBSET Instants /\ Since(start) \in SUBSET Instants
  <2>1. all \in SUBSET Instants /\ Between(i, start) \in SUBSET Instants
    BY DEF Between
  <2>2. Since(start) \in SUBSET Instants
    BY DEF Since
  <2> HIDE DEF all
  <2>3. QED
    BY <1>0, <2>1, <2>2
<1> HIDE DEF all, old
<1>2. In(f, all) = In(f, old) + In(f, all \ old)
  BY <1>1, InSplit
<1>3. In(f, old) <= In(f, Between(i, start)) /\ In(f, all \ old) <= In(f, Since(start))
  BY <1>1, InGrows
<1>4. /\ In(f, old) \in Nat /\ In(f, all \ old) \in Nat /\ In(f, Between(i, start)) \in Nat
      /\ In(f, Since(start)) \in Nat
  BY <1>1, InIsNat
<1>5. In(f, all) < 2 * Limit
  BY <1>a, <1>2, <1>3, <1>4
<1>6. QED
  BY <1>5 DEF all

LEMMA LimitIs ==
  /\ LessThanTwiceTheLimit <=>
        \A i \in Instants : In(admitted, Between(i, i + Window)) < 2 * Limit
  /\ LessThanTwiceTheLimit' <=>
        \A i \in Instants : In(admitted', Between(i, i + Window)) < 2 * Limit
  BY DEF LessThanTwiceTheLimit, In, Between, Instants

LEMMA LimiterStart == ASSUME LimiterInit PROVE LimiterInv
<1>a. Limit \in Nat \ {0} /\ Window \in Nat \ {0} /\ MaxInstant \in Nat
  BY LimiterAssumption
<1>1. /\ instant = 0 /\ entry = [count |-> 0, resetAt |-> 0]
      /\ admitted = [i \in Instants |-> 0]
  BY DEF LimiterInit, NoEntryYet, Instants
<1>2. /\ instant \in Instants /\ entry \in [count : Nat, resetAt : Nat]
      /\ admitted \in [Instants -> Nat] /\ WindowEnded
  BY <1>1, <1>a DEF Instants, WindowEnded
<1>3. ASSUME NEW s \in SUBSET Instants PROVE In(admitted, s) = 0
  <2>1. \A j \in s : admitted[j] = 0
    BY <1>1
  <2>2. QED
    BY <2>1, InstantsFinite, SumOfZeros DEF In
<1>4. \A i \in Instants : In(admitted, Since(i)) < Limit
  BY <1>3, <1>a DEF Since
<1>5. \A i \in Instants : In(admitted, Between(i, i + Window)) < 2 * Limit
  BY <1>3, <1>a DEF Between
<1>6. QED
  BY <1>1, <1>2, <1>4, <1>5, LimitIs DEF LimiterInv

LEMMA ConsumeStep == ASSUME LimiterInv, Consume PROVE LimiterInv'
<1>a. /\ Limit \in Nat \ {0} /\ Window \in Nat \ {0} /\ MaxInstant \in Nat
      /\ Instants \subseteq Nat
  BY LimiterAssumption DEF Instants
<1>b. /\ instant \in Instants /\ entry \in [count : Nat, resetAt : Nat]
      /\ admitted \in [Instants -> Nat] /\ instant' = instant
      /\ \A j \in Instants : j > instant => admitted[j] = 0
      /\ entry.count \in Nat /\ entry.resetAt \in Nat
  BY DEF LimiterInv, Consume
<1>c. \A i \in Instants : In(admitted, Between(i, i + Window)) < 2 * Limit
  BY LimitIs DEF LimiterInv
<1>d. \A i \in Instants :
          /\ Since(i) \in SUBSET Instants
          /\ instant \in Since(i) <=> i <= instant
  BY <1>b DEF Since
\* A new window begins with this request.
<1>1. CASE WindowEnded
  <2>1. /\ admitted' = [admitted EXCEPT ![instant] = @ + 1]
        /\ entry' = [count |-> 1, resetAt |-> instant + Window]
    <3>1. /\ entry' = [[count |-> 1, resetAt |-> instant + Window]
                          EXCEPT !.count = IF @ > Limit THEN Limit + 1 ELSE @]
          /\ admitted' = IF 1 > Limit THEN admitted
                         ELSE [admitted EXCEPT ![instant] = @ + 1]
      BY <1>1 DEF Consume
    <3>2. ~(1 > Limit)
      BY <1>a
    <3>3. QED
      BY <3>1, <3>2
  <2>2. /\ admitted' \in [Instants -> Nat] /\ admitted'[instant] = 1
        /\ \A j \in Instants \ {instant} : admitted'[j] = admitted[j]
    BY <1>1, <1>b, <2>1 DEF LimiterInv
  <2>3. ~WindowEnded' /\ Start' = instant
    BY <1>a, <1>b, <2>1 DEF WindowEnded, Start
  <2>4. In(admitted', Since(instant)) = 1
    <3>1. \A j \in Since(instant) \ {instant} : admitted'[j] = 0
      BY <1>a, <1>b, <2>2 DEF Since
    <3>2. In(admitted', Since(instant) \ {instant}) = 0
      <4>1. Since(instant) \ {instant} \in SUBSET Instants
        BY <1>b, <1>d
      <4>2. IsFiniteSet(Since(instant) \ {instant})
        BY <4>1, InstantsFinite
      <4>3. QED
        BY <3>1, <4>2, SumOfZeros DEF In
    <3>3. instant \in Since(instant)
      BY <1>a, <1>b DEF Since
    <3>4. In(admitted', Since(instant)) = admitted'[instant] + 0
      BY <1>b, <1>d, <2>2, <3>2, <3>3, InTake
    <3>5. QED
      BY <2>2, <3>4
  <2>5. ASSUME NEW i \in Instants, i + Window > instant
        PROVE  In(admitted', Between(i, instant)) < Limit
    <3>1. Between(i, instant) \in SUBSET Since(i) /\ Since(i) \in SUBSET Instants
      BY DEF Between, Since
    <3>2. In(admitted', Between(i, instant)) = In(admitted, Between(i, instant))
      <4>1. \A j \in Between(i, instant) : j \in Instants \ {instant}
        BY <1>a, <1>b DEF Between
      <4>2. QED
        BY <2>2, <3>1, <4>1, InSame
    <3>3. In(admitted, Since(i)) < Limit
      BY <1>1, <2>5 DEF LimiterInv
    <3>4. In(admitted, Between(i, instant)) <= In(admitted, Since(i))
      BY <1>b, <3>1, InGrows
    <3>5. In(admitted, Between(i, instant)) \in Nat /\ In(admitted, Since(i)) \in Nat
      BY <1>b, <3>1, InIsNat
    <3>6. QED
      BY <1>a, <3>2, <3>3, <3>4, <3>5
  <2>6. ASSUME NEW i \in Instants
        PROVE  In(admitted', Between(i, i + Window)) < 2 * Limit
    <3>1. CASE i + Window > instant
      <4>1. In(admitted', Since(instant)) <= Limit
        BY <1>a, <2>4
      <4>2. QED
        BY <1>b, <2>2, <2>5, <3>1, <4>1, TwoWindows
    <3>2. CASE ~(i + Window > instant)
      <4>1. \A j \in Between(i, i + Window) : j \in Instants \ {instant}
        BY <1>a, <1>b, <3>2 DEF Between
      <4>2. In(admitted', Between(i, i + Window)) = In(admitted, Between(i, i + Window))
        BY <2>2, <4>1, InSame
      <4>3. QED
        BY <1>c, <4>2
    <3>3. QED
      BY <3>1, <3>2
  <2>7. entry' \in [count : Nat, resetAt : Nat] /\ entry'.count = 1
    BY <1>a, <1>b, <2>1
  <2>8. \A j \in Instants : j > instant => admitted'[j] = 0
    BY <1>a, <1>b, <2>2
  <2>9. instant \in 0 .. instant
    BY <1>a, <1>b
  <2>10. LessThanTwiceTheLimit'
    BY <2>6, LimitIs
  <2>11. \A s : In(admitted, s)' = In(admitted', s)
    BY DEF In
  <2>12. QED
    BY <1>a, <1>b, <2>2, <2>3, <2>4, <2>5, <2>7, <2>8, <2>9, <2>10 DEF LimiterInv
<1>2. CASE ~WindowEnded
  <2>1. /\ Start \in 0 .. instant /\ admitted[Start] > 0
        /\ In(admitted, Since(Start)) <= entry.count
        /\ In(admitted, Since(Start)) <= Limit
        /\ \A i \in Instants :
              i + Window > Start => In(admitted, Between(i, Start)) < Limit
    BY <1>2 DEF LimiterInv
  <2>2. PICK start \in Instants : start = Start
    BY <1>a, <1>b, <2>1 DEF Instants
  <2>3. start <= instant
    BY <1>a, <1>b, <2>1, <2>2
  <2> DEFINE more == entry.count + 1
  <2>4. /\ entry' = [[entry EXCEPT !.count = more]
                          EXCEPT !.count = IF @ > Limit THEN Limit + 1 ELSE @]
        /\ admitted' = IF more > Limit THEN admitted
                       ELSE [admitted EXCEPT ![instant] = @ + 1]
    BY <1>2, <1>b DEF Consume
  <2>5. /\ entry'.resetAt = entry.resetAt
        /\ entry'.count = IF more > Limit THEN Limit + 1 ELSE more
        /\ entry' \in [count : Nat, resetAt : Nat]
    <3>1. more \in Nat /\ Limit + 1 \in Nat
      BY <1>a, <1>b
    <3>2. entry = [count |-> entry.count, resetAt |-> entry.resetAt]
      BY <1>b
    <3> HIDE DEF more
    <3>3. [entry EXCEPT !.count = more] = [count |-> more, resetAt |-> entry.resetAt]
      BY <3>2
    <3>4. entry' = [count |-> IF more > Limit THEN Limit + 1 ELSE more,
                    resetAt |-> entry.resetAt]
      BY <2>4, <3>3
    <3>5. QED
      BY <1>b, <3>1, <3>4
  <2>6. ~WindowEnded' /\ Start' = start
    BY <1>2, <1>b, <2>2, <2>5 DEF WindowEnded, Start
  <2>7. CASE more > Limit
    <3>1. admitted' = admitted
      BY <2>4, <2>7
    <3>2. In(admitted, Since(start)) <= entry'.count
      BY <1>a, <2>1, <2>2, <2>5, <2>7, <1>b, <1>d, InIsNat
    <3>3. QED
      BY <1>b, <2>1, <2>2, <2>5, <2>6, <3>1, <3>2, <1>c, LimitIs DEF LimiterInv
  <2>8. CASE ~(more > Limit)
    <3>1. admitted' = [admitted EXCEPT ![instant] = @ + 1]
      BY <2>4, <2>8
    <3>2. /\ admitted' \in [Instants -> Nat]
          /\ admitted'[instant] = admitted[instant] + 1
          /\ \A j \in Instants \ {instant} : admitted'[j] = admitted[j]
      BY <1>b, <3>1
    <3>3. In(admitted', Since(start)) = In(admitted, Since(start)) + 1
      <4>1. Since(start) \in SUBSET Instants /\ instant \in Since(start)
        BY <1>d, <2>3
      <4>2. QED
        BY <1>b, <3>2, <4>1, InRises
    <3>4. In(admitted, Since(start)) \in Nat
      BY <1>b, <1>d, InIsNat
    <3>5. /\ In(admitted', Since(start)) <= entry'.count
          /\ In(admitted', Since(start)) <= Limit
      BY <1>a, <1>b, <2>1, <2>2, <2>5, <2>8, <3>3, <3>4
    <3>6. ASSUME NEW i \in Instants, i + Window > start
          PROVE  In(admitted', Between(i, start)) < Limit
      <4>1. \A j \in Between(i, start) : j \in Instants \ {instant}
        BY <1>a, <1>b, <2>3 DEF Between
      <4>2. In(admitted', Between(i, start)) = In(admitted, Between(i, start))
        BY <3>2, <4>1, InSame
      <4>3. QED
        BY <2>1, <2>2, <3>6, <4>2
    <3>7. ASSUME NEW i \in Instants
          PROVE  In(admitted', Between(i, i + Window)) < 2 * Limit
      <4>1. CASE i + Window > start
        BY <3>2, <3>5, <3>6, <4>1, TwoWindows
      <4>2. CASE ~(i + Window > start)
        <5>1. \A j \in Between(i, i + Window) : j \in Instants \ {instant}
          BY <1>a, <1>b, <2>3, <4>2 DEF Between
        <5>2. In(admitted', Between(i, i + Window)) = In(admitted, Between(i, i + Window))
          BY <3>2, <5>1, InSame
        <5>3. QED
          BY <1>c, <5>2
      <4>3. QED
        BY <4>1, <4>2
    <3>8. admitted'[start] > 0
      BY <1>b, <2>1, <2>2, <3>2
    <3>9. \A j \in Instants : j > instant => admitted'[j] = 0
      BY <1>a, <1>b, <3>2
    <3>10. LessThanTwiceTheLimit'
      BY <3>7, LimitIs
    <3>11. start \in 0 .. instant
      BY <2>1, <2>2
    <3>12. QED
      BY <1>b, <2>5, <2>6, <3>2, <3>5, <3>6, <3>8, <3>9, <3>10, <3>11 DEF LimiterInv
  <2>9. QED
    BY <2>7, <2>8
<1>3. QED
  BY <1>1, <1>2

LEMMA SweepStep == ASSUME LimiterInv, Sweep PROVE LimiterInv'
<1>1. /\ WindowEnded /\ entry' = NoEntryYet
      /\ instant' = instant /\ admitted' = admitted
  BY DEF Sweep
<1>2. WindowEnded' /\ entry' \in [count : Nat, resetAt : Nat]
  BY <1>1, LimiterAssumption DEF WindowEnded, NoEntryYet, LimiterInv, Instants
<1>3. LessThanTwiceTheLimit'
  BY <1>1, LimitIs DEF LimiterInv
<1>4. QED
  BY <1>1, <1>2, <1>3 DEF LimiterInv

LEMMA InstantStep == ASSUME LimiterInv, InstantPasses PROVE LimiterInv'
<1>a. /\ Limit \in Nat \ {0} /\ Window \in Nat \ {0} /\ MaxInstant \in Nat
      /\ Instants \subseteq Nat
  BY LimiterAssumption DEF Instants
<1>b. /\ instant \in Instants /\ entry \in [count : Nat, resetAt : Nat]
      /\ admitted \in [Instants -> Nat]
      /\ \A j \in Instants : j > instant => admitted[j] = 0
      /\ entry.count \in Nat /\ entry.resetAt \in Nat
      /\ instant' = instant + 1 /\ entry' = entry /\ admitted' = admitted
      /\ instant' \in Instants
  BY <1>a DEF LimiterInv, InstantPasses, Instants
<1>c. /\ \A j \in Instants : j > instant' => admitted[j] = 0
      /\ admitted[instant'] = 0
  BY <1>a, <1>b
<1>d. LessThanTwiceTheLimit'
  BY <1>b, LimitIs DEF LimiterInv
<1>1. CASE WindowEnded
  <2>1. WindowEnded'
    BY <1>1, <1>a, <1>b DEF WindowEnded
  <2>2. \A i \in Instants : i + Window > instant' => In(admitted, Since(i)) < Limit
    BY <1>1, <1>a, <1>b DEF LimiterInv
  <2>3. QED
    BY <1>b, <1>c, <1>d, <2>1, <2>2 DEF LimiterInv
<1>2. CASE ~WindowEnded /\ ~WindowEnded'
  <2>1. Start' = Start
    BY <1>b DEF Start
  <2>2. Start \in 0 .. instant'
    BY <1>2, <1>a, <1>b DEF LimiterInv
  <2>3. QED
    BY <1>2, <1>b, <1>c, <1>d, <2>1, <2>2 DEF LimiterInv
\* The window ends: its first request is as long ago as the window is long.
<1>3. CASE ~WindowEnded /\ WindowEnded'
  <2>1. PICK start \in Instants : start = Start
    BY <1>3, <1>a, <1>b DEF LimiterInv, Instants
  <2>2. start + Window = instant'
    BY <1>3, <1>a, <1>b, <2>1 DEF Start, WindowEnded
  <2>3. admitted[start] > 0 /\ In(admitted, Since(start)) <= Limit
    BY <1>3, <2>1 DEF LimiterInv
  <2>4. ASSUME NEW i \in Instants, i + Window > instant'
        PROVE  In(admitted, Since(i)) < Limit
    <3>1. i > start
      BY <1>a, <2>2, <2>4
    <3>2. /\ Since(i) \in SUBSET (Since(start) \ {start})
          /\ Since(start) \in SUBSET Instants /\ start \in Since(start)
      <4>1. \A j \in Since(i) : j \in Since(start) /\ j # start
        BY <1>a, <3>1 DEF Since
      <4>2. Since(start) \in SUBSET Instants /\ start \in Since(start)
        BY <1>a DEF Since
      <4>3. QED
        BY <4>1, <4>2
    <3>3. In(admitted, Since(start)) = admitted[start] + In(admitted, Since(start) \ {start})
      BY <1>b, <3>2, InTake
    <3>4. In(admitted, Since(i)) <= In(admitted, Since(start) \ {start})
      BY <1>b, <3>2, InGrows
    <3>5. /\ In(admitted, Since(start) \ {start}) \in Nat /\ In(admitted, Since(i)) \in Nat
          /\ admitted[start] \in Nat
      BY <1>b, <3>2, InIsNat
    <3>6. QED
      BY <1>a, <2>3, <3>3, <3>4, <3>5
  <2>5. QED
    BY <1>3, <1>b, <1>c, <1>d, <2>4 DEF LimiterInv
<1>4. QED
  BY <1>1, <1>2, <1>3

LEMMA LimiterNextKeeps == ASSUME LimiterInv, [LimiterNext]_limiterVars PROVE LimiterInv'
<1>1. ASSUME UNCHANGED limiterVars PROVE LimiterInv'
  <2>1. /\ instant' = instant /\ entry' = entry /\ admitted' = admitted
    BY <1>1 DEF limiterVars
  <2>2. WindowEnded' <=> WindowEnded
    BY <2>1 DEF WindowEnded
  <2>3. Start' = Start
    BY <2>1 DEF Start
  <2>4. LessThanTwiceTheLimit'
    BY <2>1, LimitIs DEF LimiterInv
  <2>5. QED
    BY <2>1, <2>2, <2>3, <2>4 DEF LimiterInv
<1>2. QED
  BY <1>1, ConsumeStep, SweepStep, InstantStep DEF LimiterNext

\* Whatever the limit and the length of its windows, fewer than twice the limit
\* pass in any time as long as a window.
THEOREM LimiterKeeps == LimiterSpec => []LessThanTwiceTheLimit
<1>1. LimiterInv => LessThanTwiceTheLimit
  BY DEF LimiterInv
<1>2. QED
  BY <1>1, LimiterStart, LimiterNextKeeps, PTL DEF LimiterSpec

-----------------------------------------------------------------------------
(* The registry of event streams.  The stream that is closing names the    *)
(* Set it was added to, and a Set that no stream names and no room has is  *)
(* new: there are always fewer streams than Sets that are counted.         *)

LiveStream ==
    [state : {"open", "ended"}, room : Rooms, set : SetIds, due : SUBSET CloseEvents]

SseInv ==
    /\ clients \in [Rooms -> SetIds \cup {0}]
    /\ rosters \in [SetIds -> SUBSET Streams]
    /\ streams \in [Streams -> LiveStream \cup {FreshStream}]
    /\ RegistryTidy

LEMMA IdsAreNumbers ==
  /\ Cardinality(Streams) \in Nat
  /\ SetIds \subseteq Nat \ {0}
  /\ IsFiniteSet(SetIds) /\ Cardinality(SetIds) = Cardinality(Streams) + 1
<1>1. Cardinality(Streams) \in Nat
  BY BrokerAssumption, FS_CardinalityType
<1>2. 1 \in Int /\ Cardinality(Streams) + 1 \in Int
  BY <1>1
<1>3. IsFiniteSet(SetIds) /\ Cardinality(SetIds) = Cardinality(Streams) + 1
  BY <1>1, <1>2, FS_Interval DEF SetIds
<1>4. QED
  BY <1>1, <1>3 DEF SetIds

LEMMA FreshIsFresh ==
  FreshStream \notin LiveStream /\ FreshStream.room = 0 /\ FreshStream.set = 0
BY DEF FreshStream, LiveStream

LEMMA RegisteredIs ==
  ASSUME SseInv
  PROVE  /\ \A room \in Rooms : Registered(room) \in SUBSET Streams
         /\ AllRegistered \in SUBSET Streams /\ IsFiniteSet(AllRegistered)
         /\ \A room \in Rooms : IsFiniteSet(Registered(room))
<1>1. \A room \in Rooms : Registered(room) \in SUBSET Streams
  BY IdsAreNumbers DEF SseInv, Registered
<1>2. AllRegistered \in SUBSET Streams
  BY <1>1 DEF AllRegistered
<1>3. QED
  BY <1>1, <1>2, BrokerAssumption, FS_Subset

LEMMA MembersAreLive ==
  ASSUME SseInv, NEW room \in Rooms, NEW r \in Registered(room)
  PROVE  /\ r \in Streams /\ streams[r] \in LiveStream
         /\ clients[room] \in SetIds /\ r \in rosters[clients[room]]
         /\ streams[r].room = room /\ streams[r].set = clients[room]
<1>1. r \in Streams
  BY RegisteredIs
<1>2. streams[r].room = room /\ streams[r].set = clients[room]
  BY DEF SseInv, RegistryTidy
<1>3. streams[r] # FreshStream
  BY <1>2, FreshIsFresh, BrokerAssumption
<1>4. QED
  BY <1>1, <1>2, <1>3 DEF SseInv, Registered

\* Two rooms do not share a Set.
LEMMA SetsAreApart ==
  ASSUME SseInv, NEW a \in Rooms, NEW b \in Rooms, clients[a] = clients[b], clients[a] # 0
  PROVE  a = b
<1>1. PICK r \in Registered(a) : TRUE
  BY DEF SseInv, RegistryTidy
<1>2. r \in Registered(b)
  BY <1>1 DEF Registered
<1>3. QED
  BY <1>1, <1>2, MembersAreLive

\* There is always a Set that is new.
LEMMA NewSetIsNew == ASSUME SseInv PROVE NewSet \in SetIds /\ Garbage(NewSet)
<1> DEFINE Named == {s \in SetIds : \E r \in Streams : streams[r].set = s}
           Namers == {r \in Streams : streams[r].set \in SetIds}
           New == {s \in SetIds : Garbage(s)}
<1>1. IsFiniteSet(Named) /\ Cardinality(Named) <= Cardinality(Streams)
  <2> DEFINE named == [r \in Namers |-> streams[r].set]
  <2>1. named \in [Namers -> Named] /\ \A s \in Named : \E r \in Namers : named[r] = s
    OBVIOUS
  <2>2. IsFiniteSet(Namers) /\ Cardinality(Namers) <= Cardinality(Streams)
    BY BrokerAssumption, FS_Subset
  <2> HIDE DEF named, Namers, Named
  <2>3. named \in Surjection(Namers, Named)
    BY <2>1 DEF Surjection
  <2>4. IsFiniteSet(Named) /\ Cardinality(Named) <= Cardinality(Namers)
    BY <2>2, <2>3, FS_Surjection
  <2>5. Cardinality(Named) \in Nat /\ Cardinality(Namers) \in Nat
    BY <2>2, <2>4, FS_CardinalityType
  <2>6. QED
    BY <2>2, <2>4, <2>5, IdsAreNumbers
<1>2. Named # SetIds
  <2> HIDE DEF Named
  <2>1. QED
    BY <1>1, IdsAreNumbers
<1>3. PICK s \in SetIds : \A r \in Streams : streams[r].set # s
  BY <1>2
<1>4. \A room \in Rooms : clients[room] # s
  <2> SUFFICES ASSUME NEW room \in Rooms, clients[room] = s PROVE FALSE
    OBVIOUS
  <2>1. PICK r \in Registered(room) : TRUE
    BY <1>3, IdsAreNumbers DEF SseInv, RegistryTidy
  <2>2. QED
    BY <1>3, <2>1, MembersAreLive
<1>5. s \in New
  BY <1>3, <1>4 DEF Garbage
<1>6. New \subseteq SetIds
  OBVIOUS
<1> HIDE DEF New
\* The least is what is farthest from the number of all.
<1>7. \E x \in New : \A y \in New : x <= y
  <2> DEFINE n == Cardinality(Streams)
             Far == {d \in 0 .. n : n + 1 - d \in New}
  <2>1. n \in Nat /\ SetIds = 1 .. n + 1
    BY IdsAreNumbers DEF SetIds
  <2> HIDE DEF n
  <2>2. IsFiniteSet(Far) /\ \A d \in Far : d \in Int
    <3>1. 0 \in Int /\ n \in Int
      BY <2>1
    <3>2. IsFiniteSet(0 .. n)
      BY <3>1, FS_Interval
    <3>3. Far \in SUBSET (0 .. n)
      OBVIOUS
    <3> HIDE DEF Far
    <3>4. IsFiniteSet(Far)
      BY <3>2, <3>3, FS_Subset
    <3>5. QED
      BY <2>1, <3>3, <3>4
  <2>3. \A x \in New : x \in Int /\ n + 1 - x \in Far
    BY <1>6, <2>1
  <2>4. Far # {}
    BY <1>5, <2>3
  <2>5. \A d \in Far : d \in 0 .. n /\ n + 1 - d \in New
    OBVIOUS
  <2> HIDE DEF Far
  <2>6. PICK d \in Far : \A e \in Far : e <= d
    BY <2>2, <2>4, LargestExists
  <2>7. n + 1 - d \in New /\ d \in Int
    BY <2>5, <2>2
  <2>8. \A y \in New : n + 1 - d <= y
    BY <2>1, <2>3, <2>6, <2>7
  <2>9. QED
    BY <2>7, <2>8
<1>8. Min(New) \in New
  BY <1>7 DEF Min
<1>9. QED
  BY <1>8 DEF New, NewSet

\* Taking streams out of the registry keeps it tidy if no empty Set is kept
\* and what remains still has its cleanup to come.
LEMMA TidyShrinks ==
  ASSUME SseInv,
         \A room \in Rooms : Registered(room)' \subseteq Registered(room),
         \A room \in Rooms :
            clients'[room] # 0 =>
                clients'[room] = clients[room] /\ Registered(room)' # {},
         \A room \in Rooms : \A r \in Registered(room)' :
            /\ streams'[r].room = streams[r].room
            /\ streams'[r].set = streams[r].set
            /\ IsOpen(r)' \/ streams'[r].due # {}
  PROVE  RegistryTidy'
<1>1. AllRegistered' \subseteq AllRegistered
  BY DEF AllRegistered
<1>2. Cardinality(AllRegistered') <= MaxClients
  <2>1. AllRegistered' \in SUBSET AllRegistered
    BY <1>1
  <2>2. /\ Cardinality(AllRegistered') <= Cardinality(AllRegistered)
        /\ IsFiniteSet(AllRegistered')
    BY <2>1, RegisteredIs, FS_Subset
  <2>3. Cardinality(AllRegistered) <= MaxClients
    BY DEF SseInv, RegistryTidy
  <2>4. Cardinality(AllRegistered') \in Nat /\ Cardinality(AllRegistered) \in Nat
    BY <2>2, RegisteredIs, FS_CardinalityType
  <2>5. QED
    BY <2>2, <2>3, <2>4, BrokerAssumption
<1>3. \A room \in Rooms : Cardinality(Registered(room)') <= MaxPerTopic
  <2> TAKE room \in Rooms
  <2>1. /\ Cardinality(Registered(room)') <= Cardinality(Registered(room))
        /\ IsFiniteSet(Registered(room)')
    BY RegisteredIs, FS_Subset
  <2>2. Cardinality(Registered(room)) <= MaxPerTopic
    BY DEF SseInv, RegistryTidy
  <2>3. Cardinality(Registered(room)') \in Nat /\ Cardinality(Registered(room)) \in Nat
    BY <2>1, RegisteredIs, FS_CardinalityType
  <2>4. QED
    BY <2>1, <2>2, <2>3, BrokerAssumption
<1>4. ASSUME NEW room \in Rooms, NEW r \in Registered(room)'
      PROVE  streams'[r].room = room /\ streams'[r].set = clients'[room]
  <2>1. clients'[room] # 0
    BY <1>4 DEF Registered
  <2>2. r \in Registered(room)
    BY <1>4
  <2>3. QED
    BY <1>4, <2>1, <2>2, MembersAreLive
<1>5. QED
  BY <1>2, <1>3, <1>4 DEF RegistryTidy

\* A stream that ends keeps its room and its Set, and its cleanup is to come.
LEMMA EndedIs ==
  ASSUME SseInv, NEW gone, streams' = EndedStreams(gone)
  PROVE  /\ streams' \in [Streams -> LiveStream \cup {FreshStream}]
         /\ \A r \in Streams :
               streams[r] # FreshStream =>
                  /\ streams'[r].room = streams[r].room
                  /\ streams'[r].set = streams[r].set
                  /\ IsOpen(r) \/ streams[r].due # {} =>
                        IsOpen(r)' \/ streams'[r].due # {}
<1>1. ASSUME NEW r \in Streams
      PROVE  /\ streams'[r] \in LiveStream \cup {FreshStream}
             /\ streams[r] # FreshStream =>
                  /\ streams'[r].room = streams[r].room
                  /\ streams'[r].set = streams[r].set
                  /\ IsOpen(r) \/ streams[r].due # {} =>
                        IsOpen(r)' \/ streams'[r].due # {}
  <2>1. CASE r \in gone /\ IsOpen(r)
    <3>1. streams'[r] = [streams[r] EXCEPT !.state = "ended", !.due = Listened]
      BY <2>1 DEF EndedStreams
    <3>2. streams[r] \in LiveStream
      BY <2>1 DEF SseInv, IsOpen, FreshStream
    <3>3. streams'[r] = [state |-> "ended", room |-> streams[r].room,
                         set |-> streams[r].set, due |-> CloseEvents]
      BY <3>1, <3>2 DEF LiveStream, Listened
    <3>4. QED
      BY <3>2, <3>3 DEF LiveStream, CloseEvents
  <2>2. CASE ~(r \in gone /\ IsOpen(r))
    <3>1. streams'[r] = streams[r]
      BY <2>2 DEF EndedStreams
    <3>2. QED
      BY <3>1 DEF SseInv, IsOpen
  <2>3. QED
    BY <2>1, <2>2
<1>2. streams' = [r \in Streams |-> streams'[r]]
  BY DEF EndedStreams
<1>3. QED
  BY <1>1, <1>2

LEMMA EndStep ==
  ASSUME SseInv, NEW gone, streams' = EndedStreams(gone),
         clients' \in [Rooms -> SetIds \cup {0}], rosters' \in [SetIds -> SUBSET Streams],
         \A room \in Rooms : Registered(room)' \subseteq Registered(room),
         \A room \in Rooms :
            clients'[room] # 0 =>
                clients'[room] = clients[room] /\ Registered(room)' # {}
  PROVE  SseInv'
<1>1. ASSUME NEW room \in Rooms, NEW r \in Registered(room)'
      PROVE  /\ streams'[r].room = streams[r].room
             /\ streams'[r].set = streams[r].set
             /\ IsOpen(r)' \/ streams'[r].due # {}
  <2>1. r \in Registered(room)
    BY <1>1
  <2>2. r \in Streams /\ streams[r] # FreshStream
    BY <2>1, MembersAreLive, FreshIsFresh
  <2>3. IsOpen(r) \/ streams[r].due # {}
    BY <2>1 DEF SseInv, RegistryTidy
  <2>4. QED
    BY <2>2, <2>3, EndedIs
<1>2. RegistryTidy'
  BY <1>1, TidyShrinks
<1>3. QED
  BY <1>2, EndedIs DEF SseInv

\* Nothing leaves the registry.
LEMMA SameRegistry ==
  ASSUME SseInv, clients' = clients, rosters' = rosters
  PROVE  /\ clients' \in [Rooms -> SetIds \cup {0}]
         /\ rosters' \in [SetIds -> SUBSET Streams]
         /\ \A room \in Rooms : Registered(room)' = Registered(room)
         /\ \A room \in Rooms :
            clients'[room] # 0 =>
                clients'[room] = clients[room] /\ Registered(room)' # {}
<1>1. \A room \in Rooms : Registered(room)' = Registered(room)
  BY DEF Registered
<1>2. QED
  BY <1>1 DEF SseInv, RegistryTidy

\* A Set is reduced, and the room leaves the registry if nothing is left.
LEMMA SetReduced ==
  ASSUME SseInv, NEW room \in Rooms, NEW s \in SetIds, NEW left \in SUBSET rosters[s],
         rosters' \in [SetIds -> SUBSET Streams],
         \A k \in SetIds : rosters'[k] = IF k = s THEN left ELSE rosters[k],
         clients' = DropRoom(room, left),
         \A other \in Rooms : clients[other] = s => (other = room \/ left = rosters[s])
  PROVE  /\ clients' \in [Rooms -> SetIds \cup {0}]
         /\ rosters' \in [SetIds -> SUBSET Streams]
         /\ \A other \in Rooms : Registered(other)' \subseteq Registered(other)
         /\ \A other \in Rooms :
            clients'[other] # 0 =>
                clients'[other] = clients[other] /\ Registered(other)' # {}
<1>1. /\ clients \in [Rooms -> SetIds \cup {0}]
      /\ rosters \in [SetIds -> SUBSET Streams]
      /\ 0 \notin SetIds
  BY IdsAreNumbers DEF SseInv
<1>2. /\ rosters' \in [SetIds -> SUBSET Streams]
      /\ \A k \in SetIds : rosters'[k] = IF k = s THEN left ELSE rosters[k]
  OBVIOUS
<1>3. /\ clients' \in [Rooms -> SetIds \cup {0}]
      /\ \A other \in Rooms :
            clients'[other] = IF left = {} /\ other = room THEN 0 ELSE clients[other]
  <2>1. CASE left = {}
    BY <1>1, <2>1 DEF DropRoom
  <2>2. CASE left # {}
    BY <1>1, <2>2 DEF DropRoom
  <2>3. QED
    BY <2>1, <2>2
<1>4. ASSUME NEW other \in Rooms
      PROVE  Registered(other)' \subseteq Registered(other)
  <2>1. CASE clients'[other] = 0
    BY <2>1 DEF Registered
  <2>2. CASE clients'[other] # 0
    <3>1. clients'[other] = clients[other] /\ clients[other] \in SetIds
      BY <1>1, <1>3, <2>2
    <3>2. Registered(other)' = rosters'[clients[other]]
          /\ Registered(other) = rosters[clients[other]]
      BY <3>1, <2>2 DEF Registered
    <3>3. QED
      BY <1>2, <3>1, <3>2
  <2>3. QED
    BY <2>1, <2>2
<1>5. ASSUME NEW other \in Rooms, clients'[other] # 0
      PROVE  clients'[other] = clients[other] /\ Registered(other)' # {}
  <2>1. clients'[other] = clients[other] /\ clients[other] \in SetIds
        /\ ~(left = {} /\ other = room)
    BY <1>1, <1>3, <1>5
  <2>2. Registered(other) # {} /\ Registered(other) = rosters[clients[other]]
    BY <1>5, <2>1 DEF SseInv, RegistryTidy, Registered
  <2>3. Registered(other)' = rosters'[clients[other]]
    BY <1>5, <2>1 DEF Registered
  <2>4. QED
    BY <1>2, <2>1, <2>2, <2>3
<1>6. QED
  BY <1>2, <1>3, <1>4, <1>5

LEMMA PublishStep ==
  ASSUME SseInv, NEW room \in Rooms, NEW refused, Publish(room, refused)
  PROVE  SseInv'
<1> DEFINE s == clients[room]
           left == {r \in rosters[s] : IsOpen(r)} \ refused
<1>1. /\ s # 0
      /\ rosters' = [rosters EXCEPT ![s] = left]
      /\ clients' = DropRoom(room, left)
      /\ streams' = EndedStreams(refused)
  BY DEF Publish
<1>2. s \in SetIds
  BY <1>1 DEF SseInv
<1>3. left \in SUBSET rosters[s]
  OBVIOUS
<1>4. \A other \in Rooms : clients[other] = s => (other = room \/ left = rosters[s])
  BY <1>1, SetsAreApart
<1> HIDE DEF left, s
<1>7. PICK k, rest : k = s /\ rest = left
  OBVIOUS
<1>8. /\ k \in SetIds /\ rest \in SUBSET rosters[k]
      /\ rosters' \in [SetIds -> SUBSET Streams] /\ clients' = DropRoom(room, rest)
      /\ \A j \in SetIds : rosters'[j] = IF j = k THEN rest ELSE rosters[j]
      /\ \A other \in Rooms : clients[other] = k => (other = room \/ rest = rosters[k])
  BY <1>1, <1>2, <1>3, <1>4, <1>7 DEF SseInv
<1>5. /\ clients' \in [Rooms -> SetIds \cup {0}]
      /\ rosters' \in [SetIds -> SUBSET Streams]
      /\ \A other \in Rooms : Registered(other)' \subseteq Registered(other)
      /\ \A other \in Rooms :
            clients'[other] # 0 =>
                clients'[other] = clients[other] /\ Registered(other)' # {}
  BY <1>8, SetReduced
<1>6. QED
  BY <1>1, <1>5, EndStep

LEMMA CloseEventStep ==
  ASSUME SseInv, NEW r \in Streams, NEW event \in CloseEvents, CloseEvent(r, event)
  PROVE  SseInv'
<1> DEFINE s == streams[r].set
           room == streams[r].room
           left == rosters[s] \ {r}
           due == streams[r].due \ {event}
<1>1. /\ event \in streams[r].due
      /\ rosters' = [rosters EXCEPT ![s] = left]
      /\ clients' = DropRoom(room, left)
      /\ streams' = [streams EXCEPT ![r] =
               IF due = {} THEN FreshStream ELSE [streams[r] EXCEPT !.due = due]]
  BY DEF CloseEvent
<1>2. streams[r] \in LiveStream
  BY <1>1 DEF SseInv, FreshStream
<1>3. s \in SetIds /\ room \in Rooms /\ left \in SUBSET rosters[s] /\ 0 \notin SetIds
  BY <1>2, IdsAreNumbers DEF LiveStream
<1>4. \A other \in Rooms : clients[other] = s => (other = room \/ left = rosters[s])
  <2> SUFFICES ASSUME NEW other \in Rooms, clients[other] = s, r \in rosters[s]
               PROVE  other = room
    OBVIOUS
  <2>1. r \in Registered(other)
    BY <1>3 DEF Registered
  <2>2. QED
    BY <2>1, MembersAreLive
<1>5. \A other \in Rooms : r \in Registered(other) => clients[other] = s
  BY MembersAreLive
<1>6. streams' \in [Streams -> LiveStream \cup {FreshStream}]
  <2>1. [streams[r] EXCEPT !.due = due]
           = [state |-> streams[r].state, room |-> streams[r].room,
              set |-> streams[r].set, due |-> due]
    BY <1>2 DEF LiveStream
  <2>2. due \in SUBSET CloseEvents
    BY <1>2 DEF LiveStream
  <2> HIDE DEF due
  <2>3. [streams[r] EXCEPT !.due = due] \in LiveStream
    BY <1>2, <2>1, <2>2 DEF LiveStream
  <2>4. QED
    BY <1>1, <2>3 DEF SseInv
<1>7. \A k \in Streams : k # r => streams'[k] = streams[k]
  BY <1>1 DEF SseInv
<1>8. left = rosters[s] \ {r}
  OBVIOUS
<1> HIDE DEF left, s, room, due
<1>14. \A j \in SetIds : rosters'[j] = IF j = s THEN left ELSE rosters[j]
  BY <1>1, <1>3 DEF SseInv
<1>15. rosters' \in [SetIds -> SUBSET Streams]
  <2>1. left \in SUBSET Streams
    BY <1>3 DEF SseInv
  <2>2. QED
    BY <1>1, <2>1 DEF SseInv
<1>16. PICK slug, n, rest : slug = room /\ n = s /\ rest = left
  OBVIOUS
<1>17. /\ n \in SetIds /\ slug \in Rooms /\ rest \in SUBSET rosters[n]
       /\ clients' = DropRoom(slug, rest)
  BY <1>1, <1>3, <1>16
<1>18. \A j \in SetIds : rosters'[j] = IF j = n THEN rest ELSE rosters[j]
  BY <1>14, <1>16
<1>19. \A other \in Rooms : clients[other] = n => (other = slug \/ rest = rosters[n])
  BY <1>4, <1>16
<1>9. /\ clients' \in [Rooms -> SetIds \cup {0}]
      /\ rosters' \in [SetIds -> SUBSET Streams]
      /\ \A other \in Rooms : Registered(other)' \subseteq Registered(other)
      /\ \A other \in Rooms :
            clients'[other] # 0 =>
                clients'[other] = clients[other] /\ Registered(other)' # {}
  BY <1>15, <1>17, <1>18, <1>19, SetReduced
\* The stream itself is no longer registered.
<1>10. \A other \in Rooms : r \notin Registered(other)'
  <2> SUFFICES ASSUME NEW other \in Rooms, r \in Registered(other)' PROVE FALSE
    OBVIOUS
  <2>1. clients'[other] # 0
    BY DEF Registered
  <2>2. clients'[other] = clients[other] /\ clients[other] = s
    BY <1>5, <1>9, <2>1
  <2>3. Registered(other)' = rosters'[s]
    BY <2>1, <2>2 DEF Registered
  <2>4. rosters'[s] = left
    BY <1>1, <1>3 DEF SseInv
  <2>5. QED
    BY <1>8, <2>3, <2>4
<1>11. ASSUME NEW other \in Rooms, NEW k \in Registered(other)'
       PROVE  /\ streams'[k].room = streams[k].room
              /\ streams'[k].set = streams[k].set
              /\ IsOpen(k)' \/ streams'[k].due # {}
  <2>1. k # r /\ k \in Registered(other)
    BY <1>9, <1>10, <1>11
  <2>2. k \in Streams /\ (IsOpen(k) \/ streams[k].due # {})
    BY <2>1, MembersAreLive DEF SseInv, RegistryTidy
  <2>3. QED
    BY <1>7, <2>1, <2>2 DEF IsOpen
<1>12. RegistryTidy'
  BY <1>9, <1>11, TidyShrinks
<1>13. QED
  BY <1>6, <1>9, <1>12 DEF SseInv

LEMMA SubscribeStep ==
  ASSUME SseInv, NEW r \in Streams, NEW room \in Rooms, Subscribe(r, room)
  PROVE  SseInv'
<1> DEFINE fresh == clients[room] = 0
           s == IF fresh THEN NewSet ELSE clients[room]
           row == [state |-> "open", room |-> room, set |-> s, due |-> {}]
<1>1. /\ streams[r] = FreshStream /\ CanSubscribe(room)
      /\ clients' = [clients EXCEPT ![room] = s]
      /\ rosters' = [rosters EXCEPT ![s] = IF fresh THEN {r} ELSE rosters[s] \cup {r}]
      /\ streams' = [streams EXCEPT ![r] = row]
  BY DEF Subscribe
<1>2. /\ clients \in [Rooms -> SetIds \cup {0}] /\ 0 \notin SetIds
      /\ rosters \in [SetIds -> SUBSET Streams]
      /\ streams \in [Streams -> LiveStream \cup {FreshStream}]
  BY IdsAreNumbers DEF SseInv
<1>3. s \in SetIds
  BY <1>2, NewSetIsNew
<1>4. row \in LiveStream /\ row.room = room /\ row.set = s /\ row.state = "open"
  BY <1>3 DEF LiveStream
\* No other room has the Set.
<1>5. \A other \in Rooms : other # room => clients[other] # s
  <2>1. CASE fresh
    BY <2>1, NewSetIsNew DEF Garbage
  <2>2. CASE ~fresh
    BY <2>2, SetsAreApart
  <2>3. QED
    BY <2>1, <2>2
<1>6. fresh => s = NewSet
  OBVIOUS
<1>7. ~fresh => s = clients[room]
  OBVIOUS
<1> HIDE DEF s, row
<1>8. /\ clients' \in [Rooms -> SetIds \cup {0}]
      /\ clients'[room] = s
      /\ \A other \in Rooms : other # room => clients'[other] = clients[other]
  BY <1>1, <1>2, <1>3
<1>9. /\ rosters' \in [SetIds -> SUBSET Streams]
      /\ rosters'[s] = IF fresh THEN {r} ELSE rosters[s] \cup {r}
      /\ \A k \in SetIds : k # s => rosters'[k] = rosters[k]
  BY <1>1, <1>2, <1>3
<1>10. /\ streams' \in [Streams -> LiveStream \cup {FreshStream}]
       /\ streams'[r] = row
       /\ \A k \in Streams : k # r => streams'[k] = streams[k]
  BY <1>1, <1>2, <1>4
<1>11. Registered(room)' = Registered(room) \cup {r}
  <2>1. Registered(room)' = rosters'[s]
    BY <1>2, <1>3, <1>8 DEF Registered
  <2>2. CASE fresh
    BY <1>9, <2>1, <2>2 DEF Registered
  <2>3. CASE ~fresh
    BY <1>7, <1>9, <2>1, <2>3 DEF Registered
  <2>4. QED
    BY <2>2, <2>3
<1>12. ASSUME NEW other \in Rooms, other # room
       PROVE  Registered(other)' = Registered(other)
  <2>1. clients'[other] = clients[other] /\ clients[other] # s
    BY <1>5, <1>8, <1>12
  <2>2. clients[other] # 0 => rosters'[clients[other]] = rosters[clients[other]]
    BY <1>2, <1>9, <2>1
  <2>3. QED
    BY <2>1, <2>2 DEF Registered
<1>13. AllRegistered' = AllRegistered \cup {r}
  <2>1. \A x : x \in AllRegistered' <=> \E other \in Rooms : x \in Registered(other)'
    BY DEF AllRegistered
  <2>2. \A x : x \in AllRegistered <=> \E other \in Rooms : x \in Registered(other)
    BY DEF AllRegistered
  <2>3. QED
    BY <1>11, <1>12, <2>1, <2>2
<1>14. Cardinality(AllRegistered') <= MaxClients
  <2>1. IsFiniteSet(AllRegistered) /\ Cardinality(AllRegistered) \in Nat
    BY RegisteredIs, FS_CardinalityType
  <2>2. Cardinality(AllRegistered) < MaxClients
    BY <1>1 DEF CanSubscribe
  <2>3. Cardinality(AllRegistered \cup {r}) = IF r \in AllRegistered THEN Cardinality(AllRegistered)
           ELSE Cardinality(AllRegistered) + 1
    BY <2>1, FS_AddElement
  <2>4. QED
    BY <1>13, <2>1, <2>2, <2>3, BrokerAssumption
<1>15. Cardinality(Registered(room)') <= MaxPerTopic
  <2>1. IsFiniteSet(Registered(room)) /\ Cardinality(Registered(room)) \in Nat
    BY RegisteredIs, FS_CardinalityType
  <2>2. Cardinality(Registered(room)) < MaxPerTopic
    BY <1>1 DEF CanSubscribe
  <2>3. Cardinality(Registered(room) \cup {r}) = IF r \in Registered(room) THEN Cardinality(Registered(room))
           ELSE Cardinality(Registered(room)) + 1
    BY <2>1, FS_AddElement
  <2>4. QED
    BY <1>11, <2>1, <2>2, <2>3, BrokerAssumption
<1>16. \A other \in Rooms : Cardinality(Registered(other)') <= MaxPerTopic
  BY <1>12, <1>15 DEF SseInv, RegistryTidy
<1>17. \A other \in Rooms : clients'[other] # 0 => Registered(other)' # {}
  BY <1>8, <1>11, <1>12 DEF SseInv, RegistryTidy
<1>18. ASSUME NEW other \in Rooms, NEW k \in Registered(other)'
       PROVE  /\ streams'[k].room = other /\ streams'[k].set = clients'[other]
              /\ IsOpen(k)' \/ streams'[k].due # {}
  <2>1. CASE k \in Registered(other)
    <3>1. k \in Streams /\ streams[k] \in LiveStream
          /\ streams[k].room = other /\ streams[k].set = clients[other]
          /\ clients[other] # 0
      BY <1>2, <2>1, MembersAreLive
    <3>2. k # r
      BY <1>1, <3>1, FreshIsFresh
    <3>3. clients'[other] = clients[other]
      BY <1>7, <1>8, <3>1
    <3>4. IsOpen(k) \/ streams[k].due # {}
      BY <2>1 DEF SseInv, RegistryTidy
    <3>5. QED
      BY <1>10, <3>1, <3>2, <3>3, <3>4 DEF IsOpen
  <2>2. CASE k \notin Registered(other)
    <3>1. other = room /\ k = r
      BY <1>11, <1>12, <1>18, <2>2
    <3>2. QED
      BY <1>4, <1>8, <1>10, <3>1 DEF IsOpen
  <2>3. QED
    BY <2>1, <2>2
<1>19. RegistryTidy'
  BY <1>14, <1>16, <1>17, <1>18 DEF RegistryTidy
<1>20. QED
  BY <1>8, <1>9, <1>10, <1>19 DEF SseInv

LEMMA SseStart == ASSUME SseInit PROVE SseInv
<1>1. /\ clients \in [Rooms -> SetIds \cup {0}] /\ \A room \in Rooms : clients[room] = 0
      /\ rosters \in [SetIds -> SUBSET Streams]
      /\ streams \in [Streams -> LiveStream \cup {FreshStream}]
  BY DEF SseInit
<1>2. \A room \in Rooms : Registered(room) = {}
  BY <1>1 DEF Registered
<1>3. AllRegistered = {}
  BY <1>2 DEF AllRegistered
<1>4. RegistryTidy
  BY <1>1, <1>2, <1>3, FS_EmptySet, BrokerAssumption DEF RegistryTidy
<1>5. QED
  BY <1>1, <1>4 DEF SseInv

LEMMA SseNextKeeps == ASSUME SseInv, [SseNext]_sseVars PROVE SseInv'
<1>1. CASE \E r \in Streams, room \in Rooms : Subscribe(r, room)
  BY <1>1, SubscribeStep
<1>2. ASSUME NEW r \in Streams, PeerLeaves(r) PROVE SseInv'
  BY <1>2, SameRegistry, EndStep DEF PeerLeaves
<1>3. ASSUME NEW refused, NEW room \in Rooms, Publish(room, refused) PROVE SseInv'
  BY <1>3, PublishStep
<1>4. ASSUME NEW refused, Heartbeat(refused) PROVE SseInv'
  BY <1>4, SameRegistry, EndStep DEF Heartbeat
<1>5. CASE \E r \in Streams, event \in CloseEvents : CloseEvent(r, event)
  BY <1>5, CloseEventStep
<1>6. CASE CloseBroker
  <2>1. /\ streams' = EndedStreams(AllRegistered)
        /\ clients' = [room \in Rooms |-> 0] /\ rosters' = rosters
    BY <1>6 DEF CloseBroker
  <2>2. \A room \in Rooms : clients'[room] = 0 /\ Registered(room)' = {}
    BY <2>1 DEF Registered
  <2>3. clients' \in [Rooms -> SetIds \cup {0}] /\ rosters' \in [SetIds -> SUBSET Streams]
    BY <2>1 DEF SseInv
  <2>4. QED
    BY <2>1, <2>2, <2>3, EndStep
<1>7. CASE UNCHANGED sseVars
  <2>1. clients' = clients /\ rosters' = rosters /\ streams' = streams
    BY <1>7 DEF sseVars
  <2>2. /\ \A room \in Rooms : Registered(room)' = Registered(room)
        /\ AllRegistered' = AllRegistered
        /\ \A r : IsOpen(r)' <=> IsOpen(r)
    BY <2>1 DEF Registered, AllRegistered, IsOpen
  <2>3. RegistryTidy'
    BY <2>1, <2>2 DEF SseInv, RegistryTidy
  <2>4. QED
    BY <2>1, <2>3 DEF SseInv
<1>8. QED
  BY <1>1, <1>2, <1>3, <1>4, <1>5, <1>6, <1>7 DEF SseNext

\* However many rooms and streams there are, and whatever the limits, the
\* registry of streams keeps to them and holds nothing that will not leave it.
THEOREM RegistryIsTidy == SseSpec => []RegistryTidy
<1>1. SseInv => RegistryTidy
  BY DEF SseInv
<1>2. QED
  BY <1>1, SseStart, SseNextKeeps, PTL DEF SseSpec

-----------------------------------------------------------------------------
(* The limiter and the registry as the run explores them, each among the   *)
(* other services, which leave it alone.                                   *)

\* However long the server has run, its limiter and its registry of streams
\* keep to their limits.
THEOREM LimitsAlwaysHold == ServicesSpec => []LimitsHold
<1>1. ServicesInit => LimiterInv /\ SseInv
  BY LimiterStart, SseStart DEF ServicesInit
<1>2. LimiterInv /\ SseInv /\ [ServicesNext]_servicesVars => LimiterInv' /\ SseInv'
  <2> SUFFICES ASSUME LimiterInv, SseInv, [ServicesNext]_servicesVars
               PROVE  LimiterInv' /\ SseInv'
    OBVIOUS
  <2>1. [LimiterNext]_limiterVars /\ [SseNext]_sseVars
    BY DEF ServicesNext, servicesVars
  <2>2. QED
    BY <2>1, LimiterNextKeeps, SseNextKeeps
<1>3. LimiterInv /\ SseInv => LimitsHold
  BY DEF LimiterInv, SseInv, LimitsHold
<1>4. QED
  BY <1>1, <1>2, <1>3, PTL DEF ServicesSpec
=============================================================================
