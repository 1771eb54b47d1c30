------------------------------ MODULE KycCases ------------------------------
(***************************************************************************)
(* Manual identity checks of stakeholders                                  *)
(* (src/enterprise-finance-store.js).  A case is opened, gains checks, and *)
(* is verified, perhaps until a day, or rejected.  Payments and transfers  *)
(* ask whether a stakeholder has a verified case that has not expired; no  *)
(* job ever rewrites a case when its day comes.  Providers, levels, risk   *)
(* ratings, evidence and reasons are left out.                             *)
(***************************************************************************)
EXTENDS Naturals

CONSTANTS
    Holders, \* stakeholders of the project
    NCases,  \* bound on the cases
    LastDay  \* bound on time

ASSUME KycAssumption ==
    /\ 0 \notin Holders
    /\ NCases \in Nat
    /\ LastDay \in Nat

Cases == 1 .. NCases
Days == 0 .. LastDay
Never == LastDay + 1  \* the expiry of a case without expires_at

VARIABLES
    today,
    cases  \* cases[c]: NoCase, or the case

kycVars == <<today, cases>>

CheckStatuses == {"pending", "passed", "failed", "needs_review"}
Unreviewed == {"pending", "in_review"}
Case == [subject : Holders, status : Unreviewed \cup {"verified", "rejected"},
         checks : SUBSET CheckStatuses, expires : Days \cup {Never}]
NoCase == [subject |-> 0, status |-> "none", checks |-> {},
           expires |-> Never]

KycInit ==
    /\ today = 0
    /\ cases = [c \in Cases |-> NoCase]

-----------------------------------------------------------------------------
CasesOf(s, statuses) ==
    {c \in Cases : cases[c].subject = s /\ cases[c].status \in statuses}

Active(s) == CasesOf(s, Unreviewed \cup {"verified"})

HasCurrentKyc(s, day) ==
    \E c \in CasesOf(s, {"verified"}) : cases[c].expires >= day

CreateKycCase(c, s) ==
    /\ cases[c] = NoCase
    /\ Active(s) = {}
    /\ cases' = [cases EXCEPT ![c] =
           [subject |-> s, status |-> "pending", checks |-> {},
            expires |-> Never]]
    /\ UNCHANGED today

OpenForChecks(c) == cases[c].status \in Unreviewed

AddKycCheck(c, result) ==
    /\ OpenForChecks(c)
    /\ cases' = [cases EXCEPT ![c].checks = @ \cup {result},
                              ![c].status = "in_review"]
    /\ UNCHANGED today

\* Mutant: one passed check is enough.
PassedSome(c) == "passed" \in cases[c].checks
Passed(c) == cases[c].checks = {"passed"}

Decisions == {"verified", "rejected"}

\* Repeating a decision changes nothing, and contradicting one is refused.
ReviewKycCase(c, decision, expires) ==
    /\ cases[c].status \in Unreviewed
    /\ cases[c].checks # {}
    /\ decision = "verified" => Passed(c)
    /\ cases' = [cases EXCEPT ![c].status = decision, ![c].expires = expires]
    /\ UNCHANGED today

Tick ==
    /\ today < LastDay
    /\ today' = today + 1
    /\ UNCHANGED cases

KycNext ==
    \/ \E c \in Cases, s \in Holders : CreateKycCase(c, s)
    \/ \E c \in Cases, result \in CheckStatuses : AddKycCheck(c, result)
    \/ \E c \in Cases, decision \in Decisions,
          expires \in Days \cup {Never} : ReviewKycCase(c, decision, expires)
    \/ Tick

KycSpec == KycInit /\ [][KycNext]_kycVars

-----------------------------------------------------------------------------
KycTypeOK ==
    /\ today \in Days
    /\ cases \in [Cases -> Case \cup {NoCase}]

\* What is known of a stakeholder never rests on two cases at once, and a
\* verified case has nothing but passed checks behind it.
KycSound ==
    /\ \A s \in Holders : \A c, d \in Active(s) : c = d
    /\ \A c \in Cases :
          cases[c].status = "verified" => cases[c].checks = {"passed"}

\* A case that has been decided never changes again, so that a payment made
\* on its strength can be justified later.
DecidedIsFinal ==
    [][\A c \in Cases : cases[c].status \in {"verified", "rejected"} =>
           cases'[c] = cases[c]]_kycVars
=============================================================================
