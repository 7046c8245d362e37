------------------------------- MODULE SignIn -------------------------------
(***************************************************************************)
(* Signing in to one account, and its second factor: src/accounts/forms.py,*)
(* services.py, views.py, mfa.py, mfa_services.py and mfa_views.py.        *)
(*                                                                         *)
(* No request is one transaction.  The step of a request ends where it     *)
(* commits, or where it has read what it goes on to use.  Time is counted  *)
(* in steps of the one-time codes (30 s).  What only records (the audit    *)
(* rows, last_used_at) and what changes nothing (a refused code) is left   *)
(* out.  A one-time code is the secret and the step it is generated from.  *)
(***************************************************************************)
EXTENDS Integers, FiniteSets

CONSTANTS
    Browser,               \* the sessions of the account, one request each at a time
    None,
    LOGIN_FAILURE_LIMIT,   \* per username; the limit per address works alike
    LockoutSteps,          \* LOGIN_LOCKOUT_SECONDS
    PendingSteps,          \* PENDING_SECONDS
    VALID_WINDOW,          \* steps either side of now
    RECOVERY_CODE_COUNT,
    MaxNow,
    MaxEvents              \* secrets, sets of codes, resets and failures that count

ASSUME SettingsAssumption ==
    /\ IsFiniteSet(Browser) /\ Browser # {}
    /\ {LOGIN_FAILURE_LIMIT, LockoutSteps, PendingSteps, VALID_WINDOW, RECOVERY_CODE_COUNT} \subseteq Nat

VARIABLES
    now,
    credential,  \* the MfaCredential of the account, or None
    codes,       \* its MfaRecoveryCode rows
    attempts,    \* its failed LoginAttempt rows that are young enough to count
    session,     \* of each browser
    request,     \* of each browser: the request in progress, or Idle
    drawn, issued, resets,  \* how many secrets, sets of codes and resets so far
    passed,      \* history: the codes that were accepted and may still be entered
    twice,       \* history: those accepted again
    proved,      \* history: the secrets a code was entered from
    crossed,     \* history: the secrets saved by a page opened before a confirmation
    rewound,     \* history: a confirmation repeated over a confirmed factor
    together     \* history: the sets of codes issued at the same moment

histories == <<passed, twice, proved, crossed, rewound, together>>
counters == <<drawn, issued, resets>>
vars == <<now, credential, codes, attempts, session, request, counters, histories>>

Idle == [step |-> "idle"]
SignedOut == [user |-> FALSE, since |-> None]

MfaCredential == [row : Nat, secret : Nat, confirmed : BOOLEAN, last_counter : Nat \cup {None}]
MfaRecoveryCode == [issue : Nat, n : 1..RECOVERY_CODE_COUNT, used : BOOLEAN]
LoginAttempt == [at : Nat, judged : BOOLEAN, nth : Nat]

ASSUME NoneAssumption == None \notin Nat /\ None \notin MfaCredential

Init ==
    /\ now = 1 /\ credential = None /\ codes = {} /\ attempts = {}
    /\ session = [b \in Browser |-> SignedOut] /\ request = [b \in Browser |-> Idle]
    /\ drawn = 0 /\ issued = 0 /\ resets = 0
    /\ passed = {} /\ twice = {} /\ proved = {} /\ crossed = {} /\ rewound = FALSE /\ together = {}

IsConfirmed == credential # None /\ credential.confirmed
Live == {c \in codes : ~c.used}

\* One-time codes of secrets that were shown; any step a clock may be at.
Code == (1..drawn) \X (1..(now + VALID_WINDOW + 1))

Now(b, step) == request' = [request EXCEPT ![b] = step]
Starts(b) == request[b] = Idle

\* Bound: one more secret, set of codes, reset or failure.
More == drawn + issued + resets + Cardinality(attempts) < MaxEvents

\* A confirmation holds the row of the credential until it commits.
Free == \A b \in Browser : request[b].step # "turning"

Accepted(kind, code) ==
    /\ passed' = passed \cup {<<kind, code>>}
    /\ twice' = IF <<kind, code>> \in passed THEN twice \cup {<<kind, code>>} ELSE twice

-----------------------------------------------------------------------------
(***************************************************************************)
(* The password: ThrottledAuthenticationForm and LoginView.                *)
(***************************************************************************)
\* Mutant of LockedOut: one failure more is let through.
LockedOutLate == Cardinality(attempts) > LOGIN_FAILURE_LIMIT

\* lockout_state: failures in the window, refused or judged, against the limit.
LockedOut == Cardinality(attempts) >= LOGIN_FAILURE_LIMIT

AttemptsAt(moment) == {a \in attempts : a.at = moment}

\* A row of its own; nth tells it from the others of this moment.
RegisterFailedLogin(judged) ==
    /\ More
    /\ attempts' = attempts \cup
           {[at |-> now, judged |-> judged, nth |-> Cardinality(AttemptsAt(now)) + 1]}

\* Before the password is looked at.
CheckLockout(b) ==
    /\ Starts(b) /\ ~session[b].user
    /\ \/ LockedOut /\ RegisterFailedLogin(FALSE) /\ UNCHANGED request
       \/ ~LockedOut /\ Now(b, [step |-> "password"]) /\ UNCHANGED attempts
    /\ UNCHANGED <<now, credential, codes, session, counters, histories>>

WrongPassword(b) ==
    /\ request[b].step = "password" /\ Now(b, Idle) /\ RegisterFailedLogin(TRUE)
    /\ UNCHANGED <<now, credential, codes, session, counters, histories>>

\* next_step_for: a confirmed factor is asked for, anybody else is signed in.
RightPassword(b) ==
    /\ request[b].step = "password"
    /\ \/ /\ IsConfirmed /\ Now(b, Idle)
          /\ session' = [session EXCEPT ![b].since = now]
       \/ /\ ~IsConfirmed /\ Now(b, [step |-> "enters", saw |-> IsConfirmed])
          /\ UNCHANGED session
    /\ UNCHANGED <<now, credential, codes, attempts, counters, histories>>

Login(b) ==
    /\ request[b].step = "enters" /\ Now(b, Idle)
    /\ session' = [session EXCEPT ![b].user = TRUE]
    /\ UNCHANGED <<now, credential, codes, attempts, counters, histories>>

Logout(b) ==
    /\ Starts(b) /\ session[b].user
    /\ session' = [session EXCEPT ![b] = SignedOut]
    /\ UNCHANGED <<now, credential, codes, attempts, request, counters, histories>>

-----------------------------------------------------------------------------
(***************************************************************************)
(* The second factor at sign-in: MfaVerifyView and verify_code.            *)
(***************************************************************************)
\* Mutant of Expired: a pending sign-in is kept.
NeverExpired(since) == FALSE

\* pending_user.
Expired(since) == now - since > PendingSteps

ForgetPending(b) ==
    /\ Starts(b) /\ session[b].since # None /\ Expired(session[b].since)
    /\ session' = [session EXCEPT ![b].since = None]
    /\ UNCHANGED <<now, credential, codes, attempts, request, counters, histories>>

\* Mutant of Fresh: the anti-replay record is not compared.
AnyCounter(counter, after) == TRUE

Fresh(counter, after) == after # None => counter > after

\* mfa.verify: a code of this secret within the window, past after.
Verified(secret, code, after) ==
    /\ code[1] = secret /\ Fresh(code[2], after)
    /\ now - VALID_WINDOW <= code[2] /\ code[2] <= now + VALID_WINDOW

Enter(b) == session' = [session EXCEPT ![b] = [user |-> TRUE, since |-> None]]

\* The row of the credential is locked, here and below.
MayVerify(b) ==
    /\ Starts(b) /\ session[b].since # None /\ ~Expired(session[b].since)
    /\ Free /\ IsConfirmed

VerifyCode(b, code) ==
    /\ MayVerify(b) /\ Verified(credential.secret, code, credential.last_counter)
    /\ credential' = [credential EXCEPT !.last_counter = code[2]]
    /\ Accepted("one-time", code) /\ Enter(b)
    /\ UNCHANGED <<now, codes, attempts, request, counters, proved, crossed, rewound, together>>

\* Unused codes are locked too; those being replaced are waited for.
SpendRecoveryCode(b, code) ==
    /\ MayVerify(b) /\ code \in Live
    /\ \A o \in Browser :
           request[o].step \in {"turning", "reissuing"} => request[o].replaced \cap Live = {}
    /\ codes' = (codes \ {code}) \cup {[code EXCEPT !.used = TRUE]}
    /\ Accepted("recovery", <<code.issue, code.n>>) /\ Enter(b)
    /\ UNCHANGED <<now, credential, attempts, request, counters, proved, crossed, rewound, together>>

-----------------------------------------------------------------------------
(***************************************************************************)
(* Enrolment: MfaSetupView, begin_enrolment and confirm_enrolment.         *)
(***************************************************************************)
\* Mutant of MayBegin: the page replaces a confirmed secret too.
AlwaysBegin == TRUE

MayBegin == ~IsConfirmed

\* get_or_create, and the refusal; the rest works on the loaded row.
BeginEnrolment(b) ==
    /\ Starts(b) /\ session[b].user /\ MayBegin
    /\ credential' = IF credential # None THEN credential
                     ELSE [row |-> resets, secret |-> 0, confirmed |-> FALSE, last_counter |-> None]
    /\ Now(b, [step |-> "drawing", row |-> credential'.row, saw |-> IsConfirmed])
    /\ UNCHANGED <<now, codes, attempts, session, counters, histories>>

\* save(update_fields): an error when the row is gone.
StillThere(b) == credential # None /\ credential.row = request[b].row

Confirming == \E b \in Browser : request[b].step \in {"proved", "turning"}

SaveSecret(b) ==
    /\ request[b].step = "drawing" /\ StillThere(b) /\ Free /\ More
    /\ credential' = [credential EXCEPT !.secret = drawn + 1]
    /\ drawn' = drawn + 1
    /\ crossed' = IF Confirming \/ (IsConfirmed /\ ~request[b].saw) THEN crossed \cup {drawn + 1}
                  ELSE crossed
    /\ Now(b, Idle)
    /\ UNCHANGED <<now, codes, attempts, session, issued, resets,
                   passed, twice, proved, rewound, together>>

ConfirmEnrolment(b, code) ==
    /\ Starts(b) /\ session[b].user
    /\ credential # None /\ credential.secret # 0 /\ ~credential.confirmed
    /\ Verified(credential.secret, code, None)
    /\ Now(b, [step |-> "proved", row |-> credential.row, code |-> code])
    /\ proved' = proved \cup {credential.secret}
    /\ UNCHANGED <<now, credential, codes, attempts, session, counters,
                   passed, twice, crossed, rewound, together>>

\* _issue_recovery_codes deletes the unused codes it can see ...
Issuing(b, step) ==
    /\ More /\ issued' = issued + 1
    /\ Now(b, [step EXCEPT !.issue = issued + 1, !.replaced = Live])
    /\ together' = together \cup {{request[o].issue, issued + 1} :
                       o \in {o \in Browser : request[o].step \in {"turning", "reissuing"}}}

\* Mutant of Replace: the earlier set is kept.
ReplaceNone(replaced) == codes

Replace(replaced) == codes \ replaced

\* ... and the new set is seen when it commits.
Issued(b) ==
    /\ codes' = Replace(request[b].replaced) \cup
          [issue : {request[b].issue}, n : 1..RECOVERY_CODE_COUNT, used : {FALSE}]
    /\ Now(b, Idle)

\* _turn_on: the UPDATE of the credential locks it.
TurnOn(b) ==
    /\ request[b].step = "proved" /\ StillThere(b) /\ Free
    /\ Issuing(b, [step |-> "turning", row |-> request[b].row, code |-> request[b].code,
                   issue |-> 0, replaced |-> {}])
    /\ UNCHANGED <<now, credential, codes, attempts, session, drawn, resets,
                   passed, twice, proved, crossed, rewound>>

CommitTurnOn(b) ==
    /\ request[b].step = "turning" /\ Issued(b)
    /\ credential' = [credential EXCEPT !.confirmed = TRUE, !.last_counter = request[b].code[2]]
    /\ rewound' = (rewound \/ IsConfirmed)
    /\ Accepted("one-time", request[b].code)
    /\ UNCHANGED <<now, attempts, session, counters, proved, crossed, together>>

RowGone(b) ==
    /\ request[b].step \in {"drawing", "proved"} /\ ~StillThere(b) /\ Now(b, Idle)
    /\ UNCHANGED <<now, credential, codes, attempts, session, counters, histories>>

\* regenerate_recovery_codes: it reads the credential, and locks nothing but
\* the codes it deletes.
RegenerateRecoveryCodes(b) ==
    /\ Starts(b) /\ session[b].user /\ IsConfirmed
    /\ Issuing(b, [step |-> "reissuing", issue |-> 0, replaced |-> {}])
    /\ UNCHANGED <<now, credential, codes, attempts, session, drawn, resets,
                   passed, twice, proved, crossed, rewound>>

CommitReissue(b) ==
    /\ request[b].step = "reissuing" /\ Issued(b)
    /\ UNCHANGED <<now, credential, attempts, session, counters, histories>>

\* reset, by an administrator: a set being issued survives it.
Reset ==
    /\ credential # None /\ Free /\ More
    /\ resets' = resets + 1 /\ credential' = None /\ codes' = {}
    /\ UNCHANGED <<now, attempts, session, request, drawn, issued, histories>>

Tick ==
    /\ now < MaxNow /\ now' = now + 1
    /\ attempts' = {a \in attempts : a.at + LockoutSteps >= now'}
    /\ passed' = {p \in passed : p[1] = "one-time" => p[2][2] >= now' - VALID_WINDOW}
    /\ UNCHANGED <<credential, codes, session, request, counters,
                   twice, proved, crossed, rewound, together>>

BrowserNext(b) ==
    \/ CheckLockout(b) \/ WrongPassword(b) \/ RightPassword(b) \/ Login(b) \/ Logout(b)
    \/ ForgetPending(b)
    \/ \E code \in Code : VerifyCode(b, code) \/ ConfirmEnrolment(b, code)
    \/ \E code \in codes : SpendRecoveryCode(b, code)
    \/ BeginEnrolment(b) \/ SaveSecret(b) \/ TurnOn(b) \/ CommitTurnOn(b) \/ RowGone(b)
    \/ RegenerateRecoveryCodes(b) \/ CommitReissue(b)

Next == Reset \/ Tick \/ \E b \in Browser : BrowserNext(b)

Spec == Init /\ [][Next]_vars
-----------------------------------------------------------------------------
(***************************************************************************)
(* Properties.                                                             *)
(***************************************************************************)
\* The rows are as their models declare them, and a factor that is on has a
\* secret and a last counter.
TypeOK ==
    /\ credential = None \/ credential \in MfaCredential
    /\ IsConfirmed => credential.secret # 0 /\ credential.last_counter # None
    /\ codes \subseteq MfaRecoveryCode
    /\ attempts \subseteq LoginAttempt
    /\ \A b \in Browser : session[b].since \in Nat \cup {None}

\* No code is accepted twice, by sign-ins at the same moment or one after
\* the other, a recovery code neither; unless a confirmation that read the
\* factor before it was on came after another one and moved last_counter back.
OneCodeOnePass == rewound \/ twice = {}

\* The unused recovery codes are those of one set: issuing one invalidates
\* the earlier ones, save those that were being issued at that moment.
OneLiveSet ==
    \A c, d \in Live : c.issue = d.issue \/ {c.issue, d.issue} \in together

\* The secret of a factor that is on is one that a code was entered from,
\* unless an enrolment page opened before saved its secret during or after
\* the confirmation.
EnrolledSecretWasProved ==
    IsConfirmed => credential.secret \in proved \cup crossed

\* In a lockout window no more wrong passwords are judged than the limit and
\* what the other browsers had in progress.
JudgedWithinLimit ==
    Cardinality({a \in attempts : a.judged})
        <= LOGIN_FAILURE_LIMIT + Cardinality(Browser) - 1

\* A browser is signed in by a password that was right while no factor was on,
\* or by a code that is used up by it, within the time of the password.
WholeSignIn ==
    [][\A b \in Browser : session'[b].user /\ ~session[b].user =>
           \/ request[b].step = "enters" /\ ~request[b].saw
           \/ /\ IsConfirmed /\ <<credential', codes'>> # <<credential, codes>>
              /\ session[b].since # None /\ now - session[b].since <= PendingSteps]_vars
=============================================================================
