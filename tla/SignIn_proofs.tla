--------------------------- MODULE SignIn_proofs ---------------------------
(***************************************************************************)
(* Proofs about SignIn, for any number of browsers, any limits and any     *)
(* bound on what happens.                                                  *)
(***************************************************************************)
EXTENDS SignIn, FiniteSetTheorems, TLAPS

-----------------------------------------------------------------------------
(***************************************************************************)
(* Types.                                                                  *)
(***************************************************************************)
Session == [user : BOOLEAN, since : Nat \cup {None}]

\* A code that was accepted: its kind, and a secret and a step, or a set and
\* a place in it.
Pass == {"one-time", "recovery"} \X (Nat \X Nat)

\* Requests that hold a row of the credential, a code of it, a set of codes
\* that is not committed.
HoldsRow(b)  == request[b].step \in {"drawing", "proved", "turning"}
HoldsCode(b) == request[b].step \in {"proved", "turning"}
Pending(b)   == request[b].step \in {"turning", "reissuing"}

\* What a request holds is what it read or drew.
RequestsOK ==
    \A b \in Browser :
        /\ request[b].step \in {"idle", "password", "enters", "drawing", "proved", "turning",
                                "reissuing"}
        /\ HoldsRow(b) => request[b].row \in 0..resets
        /\ HoldsCode(b) => request[b].code \in Nat \X Nat
        /\ Pending(b) => request[b].issue \in 1..issued

RowsOK ==
    /\ credential = None \/ credential \in MfaCredential
    /\ credential # None => credential.row = resets /\ credential.secret <= drawn
    /\ IsConfirmed => credential.secret # 0 /\ credential.last_counter # None
    /\ codes \subseteq MfaRecoveryCode
    /\ \A c \in codes : c.issue <= issued

\* A row held in memory may be gone, but never another one in its place; the
\* row that is being confirmed is locked; and a code is of a secret there is.
HeldRowsOK ==
    \A b \in Browser :
        /\ HoldsRow(b) /\ credential = None => request[b].row # resets
        /\ request[b].step = "turning" => StillThere(b)
        /\ HoldsCode(b) /\ StillThere(b) => credential.secret # 0

TypeInv ==
    /\ now \in Nat /\ drawn \in Nat /\ issued \in Nat /\ resets \in Nat
    /\ RowsOK
    /\ attempts \subseteq LoginAttempt /\ IsFiniteSet(attempts)
    /\ session \in [Browser -> Session]
    /\ DOMAIN request = Browser /\ RequestsOK /\ HeldRowsOK
    /\ passed \subseteq Pass

\* A step of one browser's request leaves the requests of the others.
LEMMA NowChangesOne ==
    ASSUME DOMAIN request = Browser, NEW b \in Browser, NEW s, Now(b, s)
    PROVE  /\ DOMAIN request' = Browser
           /\ request'[b] = s
           /\ \A c \in Browser \ {b} : request'[c] = request[c]
  BY DEF Now

\* What the requests hold keeps its type when one of them moves on to a step
\* that has it, and the counters only grow.
LEMMA RequestsKept ==
    ASSUME TypeInv, NEW b \in Browser, NEW s, Now(b, s),
           resets' \in Nat, issued' \in Nat, resets <= resets', issued <= issued',
           s.step \in {"idle", "password", "enters", "drawing", "proved", "turning", "reissuing"},
           s.step \in {"drawing", "proved", "turning"} => s.row \in 0..resets',
           s.step \in {"proved", "turning"} => s.code \in Nat \X Nat,
           s.step \in {"turning", "reissuing"} => s.issue \in 1..issued'
    PROVE  DOMAIN request' = Browser /\ RequestsOK'
  <1> /\ DOMAIN request' = Browser
      /\ request'[b] = s
      /\ \A c \in Browser \ {b} : request'[c] = request[c]
    BY NowChangesOne DEF TypeInv
  <1> SUFFICES ASSUME NEW c \in Browser
               PROVE  /\ request'[c].step \in {"idle", "password", "enters", "drawing", "proved",
                                               "turning", "reissuing"}
                      /\ HoldsRow(c)' => request'[c].row \in 0..resets'
                      /\ HoldsCode(c)' => request'[c].code \in Nat \X Nat
                      /\ Pending(c)' => request'[c].issue \in 1..issued'
    BY DEF RequestsOK
  <1>1. CASE c = b
    BY <1>1 DEF HoldsRow, HoldsCode, Pending
  <1>2. CASE c # b
    BY <1>2 DEF RequestsOK, HoldsRow, HoldsCode, Pending, TypeInv
  <1> QED BY <1>1, <1>2

\* A new row of attempts has its type.
LEMMA RegisterType ==
    ASSUME TypeInv, NEW judged \in BOOLEAN, RegisterFailedLogin(judged)
    PROVE  attempts' \subseteq LoginAttempt /\ IsFiniteSet(attempts')
  <1> Cardinality(AttemptsAt(now)) \in Nat
    BY FS_Subset, FS_CardinalityType DEF AttemptsAt, TypeInv
  <1>1. attempts' \subseteq LoginAttempt
    BY DEF RegisterFailedLogin, TypeInv, LoginAttempt
  <1>2. IsFiniteSet(attempts')
    BY FS_AddElement DEF RegisterFailedLogin, TypeInv
  <1> QED BY <1>1, <1>2

\* The requests' own facts, for a step that leaves the requests alone.
LEMMA RequestsStay ==
    ASSUME TypeInv, UNCHANGED <<request, issued>>, resets' \in Nat, resets <= resets'
    PROVE  DOMAIN request' = Browser /\ RequestsOK'
  BY DEF TypeInv, RequestsOK, HoldsRow, HoldsCode, Pending

\* The rows held, for a step that moves one request on: the row of the
\* credential is the same one as long as it is there.
LEMMA HeldRowsKept ==
    ASSUME TypeInv, NEW b \in Browser, NEW s, Now(b, s), UNCHANGED resets,
           credential # None => /\ credential' # None /\ credential'.row = credential.row
                                /\ credential.secret # 0 => credential'.secret # 0,
           credential = None /\ credential' # None => credential'.row = resets,
           s.step \in {"drawing", "proved", "turning"} => credential' # None,
           s.step = "turning" => credential'.row = s.row,
           s.step \in {"proved", "turning"} => credential'.secret # 0
    PROVE  HeldRowsOK'
  <1> /\ DOMAIN request' = Browser
      /\ request'[b] = s
      /\ \A c \in Browser \ {b} : request'[c] = request[c]
    BY NowChangesOne DEF TypeInv
  <1> SUFFICES ASSUME NEW c \in Browser
               PROVE  /\ HoldsRow(c)' /\ credential' = None => request'[c].row # resets'
                      /\ request'[c].step = "turning" => StillThere(c)'
                      /\ HoldsCode(c)' /\ StillThere(c)' => credential'.secret # 0
    BY DEF HeldRowsOK
  <1>1. CASE c = b
    BY <1>1 DEF HoldsRow, HoldsCode, StillThere
  <1>2. CASE c # b
    BY <1>2 DEF HeldRowsOK, HoldsRow, HoldsCode, StillThere, TypeInv
  <1> QED BY <1>1, <1>2

\* The rows held, for a step that leaves the requests alone and does not
\* touch the row of the credential as such.
LEMMA HeldRowsStay ==
    ASSUME TypeInv, UNCHANGED <<request, resets>>,
           credential # None => /\ credential' # None /\ credential'.row = credential.row
                                /\ credential'.secret = credential.secret,
           credential = None => credential' = None
    PROVE  HeldRowsOK'
  BY DEF TypeInv, HeldRowsOK, HoldsRow, HoldsCode, StillThere

\* The rows, for a step that leaves them alone.
LEMMA RowsStay ==
    ASSUME TypeInv, UNCHANGED <<credential, codes, resets>>, drawn' \in Nat, drawn <= drawn',
           issued' \in Nat, issued <= issued'
    PROVE  RowsOK'
  <1>1. IsConfirmed' <=> IsConfirmed
    BY DEF IsConfirmed
  <1>2. credential # None => credential.secret \in Nat
    BY DEF TypeInv, RowsOK, MfaCredential
  <1>3. \A c \in codes : c.issue \in Nat
    BY DEF TypeInv, RowsOK, MfaRecoveryCode
  <1> QED BY <1>1, <1>2, <1>3 DEF TypeInv, RowsOK

\* The steps of the password, signing out and forgetting a pending sign-in.
PasswordStep(b) ==
    \/ CheckLockout(b) \/ WrongPassword(b) \/ RightPassword(b) \/ Login(b)
    \/ Logout(b) \/ ForgetPending(b)

\* They change neither the factor nor what requests hold of it.
LEMMA PasswordStepIsLocal ==
    ASSUME NEW b \in Browser, PasswordStep(b)
    PROVE  /\ UNCHANGED <<now, credential, codes, counters, histories>>
           /\ \/ UNCHANGED request
              \/ \E s : Now(b, s) /\ s.step \in {"idle", "password", "enters"}
  <1> USE DEF PasswordStep
  <1>1. ASSUME CheckLockout(b) PROVE UNCHANGED request \/ Now(b, [step |-> "password"])
    BY <1>1 DEF CheckLockout
  <1>2. ASSUME RightPassword(b)
        PROVE  Now(b, Idle) \/ Now(b, [step |-> "enters", saw |-> IsConfirmed])
    BY <1>2 DEF RightPassword
  <1>3. ASSUME WrongPassword(b) \/ Login(b) PROVE Now(b, Idle)
    BY <1>3 DEF WrongPassword, Login
  <1>4. ASSUME Logout(b) \/ ForgetPending(b) PROVE UNCHANGED request
    BY <1>4 DEF Logout, ForgetPending
  <1>5. UNCHANGED <<now, credential, codes, counters, histories>>
    BY DEF CheckLockout, WrongPassword, RightPassword, Login, Logout, ForgetPending
  <1> QED BY <1>1, <1>2, <1>3, <1>4, <1>5 DEF Idle

\* The type invariant holds over them.
LEMMA PasswordTypes ==
    ASSUME TypeInv, NEW b \in Browser, PasswordStep(b)
    PROVE  TypeInv'
  <1>0. /\ UNCHANGED <<now, credential, codes, drawn, issued, resets, passed>>
        /\ \/ UNCHANGED request
           \/ \E s : Now(b, s) /\ s.step \in {"idle", "password", "enters"}
    BY PasswordStepIsLocal DEF counters, histories
  <1>1. RowsOK'
    BY <1>0, RowsStay DEF TypeInv
  <1>2. attempts' \subseteq LoginAttempt /\ IsFiniteSet(attempts')
    BY RegisterType DEF PasswordStep, CheckLockout, WrongPassword, RightPassword, Login, Logout, ForgetPending,
                        TypeInv
  <1>3. session' \in [Browser -> Session]
    <2>1. CASE CheckLockout(b) \/ WrongPassword(b)
      BY <2>1 DEF CheckLockout, WrongPassword, TypeInv
    <2>2. CASE RightPassword(b)
      BY <2>2 DEF RightPassword, TypeInv, Session
    <2>3. CASE Login(b)
      BY <2>3 DEF Login, TypeInv, Session
    <2>4. CASE Logout(b)
      BY <2>4 DEF Logout, TypeInv, Session, SignedOut
    <2>5. CASE ForgetPending(b)
      BY <2>5 DEF ForgetPending, TypeInv, Session
    <2> QED BY <2>1, <2>2, <2>3, <2>4, <2>5 DEF PasswordStep
  <1>4. DOMAIN request' = Browser /\ RequestsOK'
    <2>1. CASE UNCHANGED request
      BY <1>0, <2>1, RequestsStay DEF TypeInv
    <2>2. CASE \E s : Now(b, s) /\ s.step \in {"idle", "password", "enters"}
      <3> PICK s : Now(b, s) /\ s.step \in {"idle", "password", "enters"}
        BY <2>2
      <3> QED BY <1>0, RequestsKept DEF TypeInv
    <2> QED BY <2>1, <2>2, <1>0
  <1>5. HeldRowsOK'
    <2>1. UNCHANGED request => HeldRowsOK'
      BY <1>0, HeldRowsStay
    <2>2. ASSUME NEW s, Now(b, s), s.step \in {"idle", "password", "enters"}
          PROVE  HeldRowsOK'
      BY <1>0, <2>2, HeldRowsKept
    <2> QED BY <2>1, <2>2, <1>0
  <1> QED BY <1>0, <1>1, <1>2, <1>3, <1>4, <1>5 DEF TypeInv

\* A one-time code a browser may enter is a pair of a secret and a step.
LEMMA CodeType ==
    ASSUME TypeInv, NEW code \in Code
    PROVE  code \in Nat \X Nat /\ code[1] >= 1 /\ code[1] <= drawn
  <1>1. now + VALID_WINDOW + 1 \in Nat
    BY SettingsAssumption DEF TypeInv
  <1> QED BY <1>1 DEF Code, TypeInv

\* The second factor at sign-in.
LEMMA FactorTypes ==
    ASSUME TypeInv, NEW b \in Browser,
           \/ \E code \in Code : VerifyCode(b, code)
           \/ \E code \in codes : SpendRecoveryCode(b, code)
    PROVE  TypeInv'
  <1>0. UNCHANGED <<now, request, drawn, issued, resets, attempts>> /\ Enter(b)
    BY DEF VerifyCode, SpendRecoveryCode, counters
  <1>1. DOMAIN request' = Browser /\ RequestsOK'
    BY <1>0, RequestsStay DEF TypeInv
  <1>2. session' \in [Browser -> Session]
    BY <1>0 DEF Enter, TypeInv, Session
  <1>3. CASE \E code \in Code : VerifyCode(b, code)
    <2> PICK code \in Code : VerifyCode(b, code)
      BY <1>3
    <2>0. code \in Nat \X Nat
      BY CodeType
    <2>1. credential \in MfaCredential /\ credential.confirmed
      BY DEF VerifyCode, MayVerify, IsConfirmed, TypeInv, RowsOK
    <2>2. /\ credential' \in MfaCredential /\ credential'.secret = credential.secret
          /\ credential'.row = credential.row
          /\ credential'.last_counter = code[2]
      BY <2>0, <2>1 DEF VerifyCode, MfaCredential
    <2>3. RowsOK'
      <3>1. credential.secret # 0
        BY <2>1, NoneAssumption DEF TypeInv, RowsOK, IsConfirmed
      <3>2. code[2] \in Nat /\ code[2] # None /\ credential # None
        BY <2>0, <2>1, NoneAssumption
      <3>3. UNCHANGED codes
        BY DEF VerifyCode
      <3> QED BY <1>0, <2>2, <3>1, <3>2, <3>3 DEF RowsOK, TypeInv, IsConfirmed
    <2>4. passed' \subseteq Pass
      BY <2>0 DEF VerifyCode, Accepted, TypeInv, Pass
    <2>5. HeldRowsOK'
      BY <1>0, <2>1, <2>2, HeldRowsStay, NoneAssumption
    <2> QED BY <1>0, <1>1, <1>2, <2>3, <2>4, <2>5 DEF TypeInv
  <1>4. CASE \E code \in codes : SpendRecoveryCode(b, code)
    <2> PICK code \in codes : SpendRecoveryCode(b, code)
      BY <1>4
    <2>0. code \in MfaRecoveryCode
      BY DEF TypeInv, RowsOK
    <2>1. /\ [code EXCEPT !.used = TRUE] \in MfaRecoveryCode
          /\ [code EXCEPT !.used = TRUE].issue = code.issue
      BY <2>0 DEF MfaRecoveryCode
    <2>2. UNCHANGED credential
      BY DEF SpendRecoveryCode
    <2>3. RowsOK'
      <3>1. \A c \in codes' : c \in MfaRecoveryCode /\ c.issue <= issued
        BY <2>1 DEF SpendRecoveryCode, TypeInv, RowsOK
      <3> QED BY <1>0, <2>2, <3>1 DEF RowsOK, TypeInv, IsConfirmed
    <2>4. <<code.issue, code.n>> \in Nat \X Nat
      BY <2>0, SettingsAssumption DEF MfaRecoveryCode
    <2>5. passed' \subseteq Pass
      BY <2>4 DEF SpendRecoveryCode, Accepted, TypeInv, Pass
    <2>6. HeldRowsOK'
      BY <1>0, <2>2, HeldRowsStay
    <2> QED BY <1>0, <1>1, <1>2, <2>3, <2>5, <2>6 DEF TypeInv
  <1> QED BY <1>3, <1>4

\* Enrolment, up to the confirmation.
LEMMA EnrolmentTypes ==
    ASSUME TypeInv, NEW b \in Browser,
           \/ BeginEnrolment(b) \/ SaveSecret(b) \/ \E code \in Code : ConfirmEnrolment(b, code)
           \/ RowGone(b)
    PROVE  TypeInv'
  <1>1. CASE BeginEnrolment(b)
    <2>0. UNCHANGED <<now, codes, attempts, session, drawn, issued, resets, passed>>
      BY <1>1 DEF BeginEnrolment, counters, histories
    <2> DEFINE s == [step |-> "drawing", row |-> credential'.row, saw |-> IsConfirmed]
    <2>1. Now(b, s)
      BY <1>1 DEF BeginEnrolment
    <2>2. credential' \in MfaCredential /\ credential'.row = resets /\ credential'.secret <= drawn
      BY <1>1 DEF BeginEnrolment, TypeInv, RowsOK, MfaCredential
    <2>3. credential # None => credential' = credential
      BY <1>1 DEF BeginEnrolment
    <2>4. credential' # None
      BY <2>2, NoneAssumption
    <2>5. IsConfirmed' => IsConfirmed
      BY <1>1 DEF BeginEnrolment, IsConfirmed
    <2>6. RowsOK'
      BY <2>0, <2>2, <2>3, <2>5 DEF TypeInv, RowsOK, IsConfirmed
    <2>7. s.step = "drawing" /\ s.row \in 0..resets
      BY <2>2 DEF TypeInv
    <2> HIDE DEF s
    <2>8. DOMAIN request' = Browser /\ RequestsOK'
      BY <2>0, <2>1, <2>7, RequestsKept DEF TypeInv
    <2>9. HeldRowsOK'
      BY <2>0, <2>1, <2>2, <2>3, <2>4, <2>7, HeldRowsKept
    <2> QED BY <2>0, <2>6, <2>8, <2>9 DEF TypeInv
  <1>2. CASE SaveSecret(b)
    <2>0. /\ UNCHANGED <<now, codes, attempts, session, issued, resets, passed>>
          /\ drawn' = drawn + 1 /\ Now(b, Idle)
      BY <1>2 DEF SaveSecret
    <2>1. credential \in MfaCredential
      BY <1>2 DEF SaveSecret, StillThere, TypeInv, RowsOK
    <2>2. /\ credential' \in MfaCredential /\ credential'.secret = drawn + 1
          /\ credential'.row = credential.row /\ credential'.confirmed = credential.confirmed
          /\ credential'.last_counter = credential.last_counter
      BY <1>2, <2>1 DEF SaveSecret, MfaCredential, TypeInv
    <2>3. credential # None /\ credential' # None
      BY <2>1, <2>2, NoneAssumption
    <2>4. IsConfirmed' <=> IsConfirmed
      BY <2>2, <2>3 DEF IsConfirmed
    <2>5. RowsOK'
      BY <2>0, <2>2, <2>3, <2>4 DEF TypeInv, RowsOK
    <2>6. DOMAIN request' = Browser /\ RequestsOK'
      BY <2>0, RequestsKept DEF TypeInv, Idle
    <2>7. credential'.secret # 0
      BY <2>2 DEF TypeInv
    <2>8. HeldRowsOK'
      BY <2>0, <2>2, <2>3, <2>7, HeldRowsKept DEF Idle
    <2> QED BY <2>0, <2>5, <2>6, <2>8 DEF TypeInv
  <1>3. CASE \E code \in Code : ConfirmEnrolment(b, code)
    <2> PICK code \in Code : ConfirmEnrolment(b, code)
      BY <1>3
    <2>0. UNCHANGED <<now, credential, codes, attempts, session, drawn, issued, resets, passed>>
      BY DEF ConfirmEnrolment, counters
    <2> DEFINE s == [step |-> "proved", row |-> credential.row, code |-> code]
    <2>1. Now(b, s) /\ credential # None /\ credential.secret # 0
      BY DEF ConfirmEnrolment
    <2>2. s.step = "proved" /\ s.row \in 0..resets /\ s.code \in Nat \X Nat
      BY <2>1, CodeType DEF TypeInv, RowsOK
    <2> HIDE DEF s
    <2>3. DOMAIN request' = Browser /\ RequestsOK'
      BY <2>0, <2>1, <2>2, RequestsKept DEF TypeInv
    <2>4. HeldRowsOK'
      BY <2>0, <2>1, <2>2, HeldRowsKept
    <2>5. RowsOK'
      BY <2>0, RowsStay DEF TypeInv
    <2> QED BY <2>0, <2>3, <2>4, <2>5 DEF TypeInv
  <1>4. CASE RowGone(b)
    <2>0. /\ UNCHANGED <<now, credential, codes, attempts, session, drawn, issued, resets, passed>>
          /\ Now(b, Idle)
      BY <1>4 DEF RowGone, counters, histories
    <2>1. DOMAIN request' = Browser /\ RequestsOK'
      BY <2>0, RequestsKept DEF TypeInv, Idle
    <2>2. HeldRowsOK'
      BY <2>0, HeldRowsKept DEF Idle
    <2>3. RowsOK'
      BY <2>0, RowsStay DEF TypeInv
    <2> QED BY <2>0, <2>1, <2>2, <2>3 DEF TypeInv
  <1> QED BY <1>1, <1>2, <1>3, <1>4

\* Sets of recovery codes: what is issued, and what a commit makes of it.
LEMMA IssueTypes ==
    ASSUME TypeInv, NEW b \in Browser, TurnOn(b) \/ RegenerateRecoveryCodes(b)
    PROVE  TypeInv'
  <1>0. /\ UNCHANGED <<now, credential, codes, attempts, session, drawn, resets, passed>>
        /\ issued' = issued + 1
    BY DEF TurnOn, RegenerateRecoveryCodes, Issuing
  <1>1. RowsOK'
    BY <1>0, RowsStay DEF TypeInv
  <1>2. CASE TurnOn(b)
    <2> DEFINE s == [[step |-> "turning", row |-> request[b].row, code |-> request[b].code,
                      issue |-> 0, replaced |-> {}]
                         EXCEPT !.issue = issued + 1, !.replaced = Live]
    <2>1. Now(b, s) /\ request[b].step = "proved" /\ StillThere(b)
      BY <1>2 DEF TurnOn, Issuing
    <2>2. /\ s.step = "turning" /\ s.row = request[b].row /\ s.code = request[b].code
          /\ s.issue = issued + 1
      OBVIOUS
    <2> HIDE DEF s
    <2>3. request[b].row \in 0..resets /\ request[b].code \in Nat \X Nat
      BY <2>1 DEF TypeInv, RequestsOK, HoldsRow, HoldsCode
    <2>6. credential.secret # 0
      BY <2>1 DEF TypeInv, HeldRowsOK, HoldsCode
    <2>4. DOMAIN request' = Browser /\ RequestsOK'
      BY <1>0, <2>1, <2>2, <2>3, RequestsKept DEF TypeInv
    <2>5. HeldRowsOK'
      BY <1>0, <2>1, <2>2, <2>6, HeldRowsKept DEF StillThere
    <2> QED BY <1>0, <1>1, <2>4, <2>5 DEF TypeInv
  <1>3. CASE RegenerateRecoveryCodes(b)
    <2> DEFINE s == [[step |-> "reissuing", issue |-> 0, replaced |-> {}]
                         EXCEPT !.issue = issued + 1, !.replaced = Live]
    <2>1. Now(b, s)
      BY <1>3 DEF RegenerateRecoveryCodes, Issuing
    <2>2. s.step = "reissuing" /\ s.issue = issued + 1
      OBVIOUS
    <2> HIDE DEF s
    <2>4. DOMAIN request' = Browser /\ RequestsOK'
      BY <1>0, <2>1, <2>2, RequestsKept DEF TypeInv
    <2>5. HeldRowsOK'
      BY <1>0, <2>1, <2>2, HeldRowsKept
    <2> QED BY <1>0, <1>1, <2>4, <2>5 DEF TypeInv
  <1> QED BY <1>2, <1>3

\* The rows of a new set.
LEMMA IssuedRows ==
    ASSUME TypeInv, NEW b \in Browser, Pending(b), Issued(b)
    PROVE  /\ codes' \subseteq MfaRecoveryCode
           /\ \A c \in codes' : c \in codes \/ (c.issue = request[b].issue /\ ~c.used)
           /\ \A c \in codes' : c.issue <= issued
           /\ Now(b, Idle)
  <1> DEFINE new == [issue : {request[b].issue}, n : 1..RECOVERY_CODE_COUNT, used : {FALSE}]
  <1>1. request[b].issue \in 1..issued
    BY DEF TypeInv, RequestsOK
  <1>2. \A c \in new : c \in MfaRecoveryCode /\ c.issue = request[b].issue /\ ~c.used
    <2> SUFFICES ASSUME NEW c \in new
                 PROVE  c \in MfaRecoveryCode /\ c.issue = request[b].issue /\ ~c.used
      OBVIOUS
    <2>1. c.issue = request[b].issue /\ ~c.used
      OBVIOUS
    <2>2. request[b].issue \in Nat /\ FALSE \in BOOLEAN
      BY <1>1 DEF TypeInv
    <2>3. c \in MfaRecoveryCode
      BY <2>2 DEF MfaRecoveryCode
    <2> QED BY <2>1, <2>3
  <1>3. codes' = (codes \ request[b].replaced) \cup new /\ Now(b, Idle)
    BY DEF Issued, Replace
  <1> HIDE DEF new
  <1> QED BY <1>1, <1>2, <1>3 DEF TypeInv, RowsOK

\* The commits of a confirmation and of a reissue.
LEMMA CommitTypes ==
    ASSUME TypeInv, NEW b \in Browser, CommitTurnOn(b) \/ CommitReissue(b)
    PROVE  TypeInv'
  <1>0. UNCHANGED <<now, attempts, session, drawn, issued, resets>> /\ Issued(b) /\ Pending(b)
    BY DEF CommitTurnOn, CommitReissue, counters, Pending
  <1>1. /\ codes' \subseteq MfaRecoveryCode /\ \A c \in codes' : c.issue <= issued
        /\ Now(b, Idle)
    BY <1>0, IssuedRows
  <1>2. DOMAIN request' = Browser /\ RequestsOK'
    BY <1>0, <1>1, RequestsKept DEF TypeInv, Idle
  <1>3. CASE CommitTurnOn(b)
    <2>1. /\ request[b].step = "turning" /\ credential \in MfaCredential /\ credential # None
          /\ credential.secret # 0
      BY <1>3 DEF CommitTurnOn, TypeInv, HeldRowsOK, HoldsCode, StillThere, RowsOK
    <2>2. request[b].code \in Nat \X Nat
      BY <2>1 DEF TypeInv, RequestsOK, HoldsCode
    <2>3. /\ credential' \in MfaCredential /\ credential'.row = credential.row
          /\ credential'.secret = credential.secret /\ credential'.confirmed
          /\ credential'.last_counter = request[b].code[2]
      BY <1>3, <2>1, <2>2 DEF CommitTurnOn, MfaCredential
    <2>4. credential' # None
      BY <2>3, NoneAssumption
    <2>5. HeldRowsOK'
      BY <1>0, <1>1, <2>1, <2>3, <2>4, HeldRowsKept DEF Idle
    <2>6. passed' \subseteq Pass
      BY <1>3, <2>2 DEF CommitTurnOn, Accepted, TypeInv, Pass
    <2>7. RowsOK'
      BY <1>0, <1>1, <2>1, <2>2, <2>3, <2>4, NoneAssumption DEF TypeInv, RowsOK, IsConfirmed
    <2> QED BY <1>0, <1>1, <1>2, <2>5, <2>6, <2>7 DEF TypeInv
  <1>4. CASE CommitReissue(b)
    <2>1. UNCHANGED <<credential, passed>>
      BY <1>4 DEF CommitReissue, histories
    <2>2. HeldRowsOK'
      BY <1>0, <1>1, <2>1, HeldRowsKept DEF Idle
    <2>3. RowsOK'
      BY <1>0, <1>1, <2>1 DEF TypeInv, RowsOK, IsConfirmed
    <2> QED BY <1>0, <1>2, <2>1, <2>2, <2>3 DEF TypeInv
  <1> QED BY <1>3, <1>4

\* The administrator's reset, and time.
LEMMA OtherTypes ==
    ASSUME TypeInv, Reset \/ Tick
    PROVE  TypeInv'
  <1>1. CASE Reset
    <2>0. /\ UNCHANGED <<now, attempts, session, request, drawn, issued, passed>>
          /\ resets' = resets + 1 /\ credential' = None /\ codes' = {} /\ Free
      BY <1>1 DEF Reset, histories
    <2>1. DOMAIN request' = Browser /\ RequestsOK'
      BY <2>0, RequestsStay DEF TypeInv
    <2>2. HeldRowsOK'
      <3> SUFFICES ASSUME NEW b \in Browser
                   PROVE  /\ HoldsRow(b) => request[b].row # resets + 1
                          /\ request[b].step # "turning"
        BY <2>0 DEF HeldRowsOK, HoldsRow, HoldsCode, StillThere
      <3>1. HoldsRow(b) => request[b].row \in 0..resets
        BY DEF TypeInv, RequestsOK
      <3>2. resets + 1 \notin 0..resets
        BY DEF TypeInv
      <3> QED BY <2>0, <3>1, <3>2 DEF Free
    <2>3. RowsOK'
      BY <2>0 DEF RowsOK, IsConfirmed
    <2> QED BY <2>0, <2>1, <2>2, <2>3 DEF TypeInv
  <1>2. CASE Tick
    <2>0. /\ UNCHANGED <<credential, codes, session, request, drawn, issued, resets>>
          /\ now' = now + 1 /\ passed' \subseteq passed /\ attempts' \subseteq attempts
      BY <1>2 DEF Tick, counters
    <2>1. DOMAIN request' = Browser /\ RequestsOK'
      BY <2>0, RequestsStay DEF TypeInv
    <2>2. HeldRowsOK'
      BY <2>0, HeldRowsStay
    <2>3. RowsOK'
      BY <2>0, RowsStay DEF TypeInv
    <2>4. IsFiniteSet(attempts')
      BY <2>0, FS_Subset DEF TypeInv
    <2> QED BY <2>0, <2>1, <2>2, <2>3, <2>4 DEF TypeInv
  <1> QED BY <1>1, <1>2

\* The type invariant holds at the start, where nobody has done anything.
LEMMA InitTypes == Init => TypeInv
  <1> SUFFICES ASSUME Init PROVE TypeInv
    OBVIOUS
  <1>1. IsFiniteSet(attempts)
    BY FS_EmptySet DEF Init
  <1>2. RequestsOK /\ HeldRowsOK /\ DOMAIN request = Browser
    BY DEF Init, RequestsOK, HeldRowsOK, HoldsRow, HoldsCode, Pending, Idle
  <1>3. RowsOK
    BY DEF Init, RowsOK, IsConfirmed
  <1>4. session \in [Browser -> Session]
    BY DEF Init, Session, SignedOut
  <1> QED BY <1>1, <1>2, <1>3, <1>4 DEF Init, TypeInv

\* The groups of steps the proofs go by.
EnrolmentStep(b) ==
    \/ BeginEnrolment(b) \/ SaveSecret(b) \/ \E code \in Code : ConfirmEnrolment(b, code)
    \/ RowGone(b)

FactorStep(b) ==
    \/ \E code \in Code : VerifyCode(b, code)
    \/ \E code \in codes : SpendRecoveryCode(b, code)

IssueStep(b)  == TurnOn(b) \/ RegenerateRecoveryCodes(b)
CommitStep(b) == CommitTurnOn(b) \/ CommitReissue(b)

\* The steps there are, those of a request told apart.
LEMMA StepsOfNext ==
    ASSUME Next
    PROVE  \/ Reset \/ Tick
           \/ \E b \in Browser : \/ PasswordStep(b) \/ EnrolmentStep(b) \/ FactorStep(b)
                                 \/ IssueStep(b) \/ CommitStep(b)
  BY DEF Next, BrowserNext, PasswordStep, EnrolmentStep, FactorStep, IssueStep, CommitStep

\* A step that changes nothing keeps the types.
LEMMA StutterTypes == ASSUME TypeInv, UNCHANGED vars PROVE TypeInv'
  <1>0. UNCHANGED <<now, credential, codes, attempts, session, request, drawn, issued, resets,
                    passed>>
    BY DEF vars, counters, histories
  <1>1. RowsOK' /\ HeldRowsOK'
    BY <1>0, RowsStay, HeldRowsStay DEF TypeInv
  <1>2. DOMAIN request' = Browser /\ RequestsOK'
    BY <1>0, RequestsStay DEF TypeInv
  <1> QED BY <1>0, <1>1, <1>2 DEF TypeInv

\* Every step keeps the types.
LEMMA NextTypes == TypeInv /\ [Next]_vars => TypeInv'
  <1> SUFFICES ASSUME TypeInv, [Next]_vars PROVE TypeInv'
    OBVIOUS
  <1>1. CASE Next
    BY <1>1, StepsOfNext, PasswordTypes, EnrolmentTypes, FactorTypes, IssueTypes, CommitTypes,
       OtherTypes DEF EnrolmentStep, FactorStep, IssueStep, CommitStep
  <1> QED BY <1>1, StutterTypes

\* The type invariant is invariant.
LEMMA TypesHold == Spec => []TypeInv
  BY InitTypes, NextTypes, PTL DEF Spec

\* Rows, attempts and sessions have their types for any number of browsers, and
\* a factor that is on has a secret and a last counter.
THEOREM TypeCorrect == Spec => []TypeOK
  <1>1. TypeInv => TypeOK
    BY DEF TypeInv, TypeOK, RowsOK, Session
  <1> QED BY <1>1, TypesHold, PTL

-----------------------------------------------------------------------------
(***************************************************************************)
(* Recovery codes.  A set being issued has a number no other set has; what *)
(* it does not replace was issued at the same moment; and a code that was  *)
(* accepted is used, or gone with its set.                                 *)
(***************************************************************************)
NumbersApart ==
    /\ \A b \in Browser : Pending(b) => \A c \in codes : c.issue # request[b].issue
    /\ \A b, d \in Browser :
           b # d /\ Pending(b) /\ Pending(d) => request[b].issue # request[d].issue

ReplacedOrTogether ==
    /\ \A b \in Browser : Pending(b) =>
           \A c \in Live : c \in request[b].replaced \/ {c.issue, request[b].issue} \in together
    /\ \A b, d \in Browser :
           b # d /\ Pending(b) /\ Pending(d) =>
               {request[b].issue, request[d].issue} \in together

SpentStaysSpent ==
    \A p \in passed :
        p[1] = "recovery" =>
            /\ p[2][1] <= issued
            /\ \A c \in Live : <<c.issue, c.n>> # p[2]
            /\ \A b \in Browser : Pending(b) => request[b].issue # p[2][1]

NoRecoveryCodeTwice == \A p \in twice : p[1] # "recovery"

CodesInv ==
    NumbersApart /\ ReplacedOrTogether /\ SpentStaysSpent /\ NoRecoveryCodeTwice /\ OneLiveSet

\* What was accepted as a recovery code.
RecoveryOf(passes) == {p \in passes : p[1] = "recovery"}

\* They hold over every step that commits no code and begins no set.
LEMMA CodesStay ==
    ASSUME CodesInv, UNCHANGED <<codes, together, issued>>,
           RecoveryOf(passed') \subseteq RecoveryOf(passed),
           RecoveryOf(twice') \subseteq RecoveryOf(twice),
           \A b \in Browser : Pending(b)' => Pending(b) /\ request'[b] = request[b]
    PROVE  CodesInv'
  <1>0. Live' = Live
    BY DEF Live
  <1>1. NumbersApart'
    <2>1. \A b \in Browser : Pending(b)' => \A c \in codes' : c.issue # request'[b].issue
      BY DEF CodesInv, NumbersApart
    <2>2. \A b, d \in Browser :
              b # d /\ Pending(b)' /\ Pending(d)' => request'[b].issue # request'[d].issue
      BY DEF CodesInv, NumbersApart
    <2> QED BY <2>1, <2>2 DEF NumbersApart
  <1>2. ReplacedOrTogether'
    <2>1. \A b \in Browser : Pending(b)' =>
              \A c \in Live' : \/ c \in request'[b].replaced
                               \/ {c.issue, request'[b].issue} \in together'
      BY <1>0 DEF CodesInv, ReplacedOrTogether
    <2>2. \A b, d \in Browser :
              b # d /\ Pending(b)' /\ Pending(d)' =>
                  {request'[b].issue, request'[d].issue} \in together'
      BY DEF CodesInv, ReplacedOrTogether
    <2> QED BY <2>1, <2>2 DEF ReplacedOrTogether
  <1>3. SpentStaysSpent'
    <2> SUFFICES ASSUME NEW p \in passed', p[1] = "recovery"
                 PROVE  /\ p[2][1] <= issued'
                        /\ \A c \in Live' : <<c.issue, c.n>> # p[2]
                        /\ \A b \in Browser : Pending(b)' => request'[b].issue # p[2][1]
      BY DEF SpentStaysSpent
    <2>1. p \in passed
      BY DEF RecoveryOf
    <2> QED BY <1>0, <2>1 DEF CodesInv, SpentStaysSpent
  <1>4. NoRecoveryCodeTwice'
    BY DEF CodesInv, NoRecoveryCodeTwice, RecoveryOf
  <1>5. OneLiveSet'
    BY <1>0 DEF CodesInv, OneLiveSet
  <1> QED BY <1>1, <1>2, <1>3, <1>4, <1>5 DEF CodesInv

\* A recovery code is spent.
LEMMA CodesSpent ==
    ASSUME TypeInv, CodesInv, NEW b \in Browser, NEW code \in codes, SpendRecoveryCode(b, code)
    PROVE  CodesInv'
  <1> DEFINE used == [code EXCEPT !.used = TRUE]
             pass == <<"recovery", <<code.issue, code.n>>>>
  <1>0. code \in MfaRecoveryCode /\ code \in Live /\ ~code.used
    BY DEF SpendRecoveryCode, TypeInv, RowsOK, Live
  <1>1. used.used /\ used.issue = code.issue
    BY <1>0 DEF MfaRecoveryCode
  <1>2. /\ codes' = (codes \ {code}) \cup {used} /\ UNCHANGED <<request, issued, together>>
        /\ passed' = passed \cup {pass}
        /\ twice' = IF pass \in passed THEN twice \cup {pass} ELSE twice
    BY DEF SpendRecoveryCode, Accepted, counters
  <1> HIDE DEF used
  <1>3. Live' = Live \ {code}
    BY <1>0, <1>1, <1>2 DEF Live
  <1>4. \A c \in codes' : \E e \in codes : e.issue = c.issue
    BY <1>0, <1>1, <1>2
  <1>5. UNCHANGED <<issued, request, together>>
    BY <1>2
  <1>6. \A d \in Browser : Pending(d)' <=> Pending(d)
    BY <1>5 DEF Pending
  <1>7. NumbersApart'
    <2>1. \A d \in Browser : Pending(d)' => \A c \in codes' : c.issue # request'[d].issue
      BY <1>4, <1>5, <1>6 DEF CodesInv, NumbersApart
    <2>2. \A d, e \in Browser :
              d # e /\ Pending(d)' /\ Pending(e)' => request'[d].issue # request'[e].issue
      BY <1>5, <1>6 DEF CodesInv, NumbersApart
    <2> QED BY <2>1, <2>2 DEF NumbersApart
  <1>8. ReplacedOrTogether'
    <2>1. \A d \in Browser : Pending(d)' =>
              \A c \in Live' : \/ c \in request'[d].replaced
                               \/ {c.issue, request'[d].issue} \in together'
      BY <1>3, <1>5, <1>6 DEF CodesInv, ReplacedOrTogether
    <2>2. \A d, e \in Browser :
              d # e /\ Pending(d)' /\ Pending(e)' =>
                  {request'[d].issue, request'[e].issue} \in together'
      BY <1>5, <1>6 DEF CodesInv, ReplacedOrTogether
    <2> QED BY <2>1, <2>2 DEF ReplacedOrTogether
  <1>9. SpentStaysSpent'
    <2> SUFFICES ASSUME NEW p \in passed', p[1] = "recovery"
                 PROVE  /\ p[2][1] <= issued'
                        /\ \A c \in Live' : <<c.issue, c.n>> # p[2]
                        /\ \A d \in Browser : Pending(d)' => request'[d].issue # p[2][1]
      BY DEF SpentStaysSpent
    <2>1. CASE p \in passed
      BY <1>3, <1>5, <1>6, <2>1 DEF CodesInv, SpentStaysSpent
    <2>2. CASE p = pass
      <3>1. p[2] = <<code.issue, code.n>> /\ p[2][1] = code.issue
        BY <2>2
      <3>2. code.issue <= issued'
        BY <1>5 DEF TypeInv, RowsOK
      <3>3. ASSUME NEW c \in Live', <<c.issue, c.n>> = <<code.issue, code.n>> PROVE FALSE
        <4>1. c \in MfaRecoveryCode /\ ~c.used /\ c # code
          BY <1>3 DEF Live, TypeInv, RowsOK
        <4> QED BY <1>0, <3>3, <4>1 DEF MfaRecoveryCode
      <3>4. \A d \in Browser : Pending(d)' => request'[d].issue # code.issue
        BY <1>5, <1>6 DEF CodesInv, NumbersApart
      <3> QED BY <3>1, <3>2, <3>3, <3>4
    <2> QED BY <1>2, <2>1, <2>2
  <1>10. NoRecoveryCodeTwice'
    <2>1. pass \notin passed
      <3> SUFFICES ASSUME pass \in passed PROVE FALSE
        OBVIOUS
      <3>1. pass[1] = "recovery" /\ pass[2] = <<code.issue, code.n>>
        OBVIOUS
      <3> QED BY <1>0, <3>1 DEF CodesInv, SpentStaysSpent
    <2> QED BY <1>2, <2>1 DEF CodesInv, NoRecoveryCodeTwice
  <1>11. OneLiveSet'
    BY <1>3, <1>5 DEF CodesInv, OneLiveSet
  <1> QED BY <1>7, <1>8, <1>9, <1>10, <1>11 DEF CodesInv

\* What beginning a set does: it has the next number, and goes with those that
\* are being issued.
LEMMA IssueBegins ==
    ASSUME TypeInv, NEW b \in Browser, IssueStep(b)
    PROVE  /\ UNCHANGED <<codes, passed, twice>> /\ ~Pending(b) /\ issued' = issued + 1
           /\ request'[b].issue = issued + 1 /\ request'[b].replaced = Live
           /\ request'[b].step \in {"turning", "reissuing"}
           /\ request'[b].step = "turning" =>
                  /\ request[b].step = "proved" /\ request'[b].code = request[b].code
                  /\ request'[b].row = request[b].row
           /\ \A c \in Browser \ {b} : request'[c] = request[c]
           /\ together' = together \cup {{request[o].issue, issued + 1} :
                                            o \in {o \in Browser : Pending(o)}}
  <1> DEFINE s1 == [[step |-> "turning", row |-> request[b].row, code |-> request[b].code,
                     issue |-> 0, replaced |-> {}]
                        EXCEPT !.issue = issued + 1, !.replaced = Live]
             s2 == [[step |-> "reissuing", issue |-> 0, replaced |-> {}]
                        EXCEPT !.issue = issued + 1, !.replaced = Live]
  <1>1. UNCHANGED <<codes, passed, twice>> /\ issued' = issued + 1 /\ ~Pending(b)
    BY DEF IssueStep, TurnOn, RegenerateRecoveryCodes, Issuing, Starts, Idle, Pending
  <1>2. (Now(b, s1) /\ request[b].step = "proved") \/ Now(b, s2)
    BY DEF IssueStep, TurnOn, RegenerateRecoveryCodes, Issuing
  <1>3. together' = together \cup {{request[o].issue, issued + 1} :
                                      o \in {o \in Browser : Pending(o)}}
    BY DEF IssueStep, TurnOn, RegenerateRecoveryCodes, Issuing, Pending
  <1>4. /\ s1.issue = issued + 1 /\ s1.replaced = Live /\ s1.step = "turning"
        /\ s1.code = request[b].code /\ s1.row = request[b].row
        /\ s2.issue = issued + 1 /\ s2.replaced = Live /\ s2.step = "reissuing"
    OBVIOUS
  <1> HIDE DEF s1, s2
  <1>5. ASSUME NEW s, Now(b, s)
        PROVE  request'[b] = s /\ \A c \in Browser \ {b} : request'[c] = request[c]
    BY <1>5, NowChangesOne DEF TypeInv
  <1> QED BY <1>1, <1>2, <1>3, <1>4, <1>5

\* A set is begun.
LEMMA CodesBegun ==
    ASSUME TypeInv, CodesInv, NEW b \in Browser, IssueStep(b)
    PROVE  CodesInv'
  <1>0. /\ UNCHANGED <<codes, passed, twice>> /\ issued' = issued + 1
        /\ request'[b].issue = issued + 1 /\ request'[b].replaced = Live
        /\ \A c \in Browser \ {b} : request'[c] = request[c]
        /\ together' = together \cup {{request[o].issue, issued + 1} :
                                         o \in {o \in Browser : Pending(o)}}
    BY IssueBegins
  <1>1. Live' = Live
    BY <1>0 DEF Live
  <1>2. \A c \in Browser \ {b} : Pending(c)' <=> Pending(c)
    BY <1>0 DEF Pending
  <1>3. issued \in Nat /\ \A d \in Browser : Pending(d) => request[d].issue \in 1..issued
    BY DEF TypeInv, RequestsOK
  <1>4. \A c \in codes : c.issue \in Nat /\ c.issue <= issued
    BY DEF TypeInv, RowsOK, MfaRecoveryCode
  <1>5. NumbersApart'
    <2>1. ASSUME NEW d \in Browser, Pending(d)', NEW c \in codes'
          PROVE  c.issue # request'[d].issue
      <3>1. CASE d = b
        BY <1>0, <1>3, <1>4, <3>1
      <3>2. CASE d # b
        BY <1>0, <1>2, <2>1, <3>2 DEF CodesInv, NumbersApart
      <3> QED BY <3>1, <3>2
    <2>2. ASSUME NEW d \in Browser, NEW e \in Browser, d # e, Pending(d)', Pending(e)'
          PROVE  request'[d].issue # request'[e].issue
      <3>1. CASE d # b /\ e # b
        BY <1>0, <1>2, <2>2, <3>1 DEF CodesInv, NumbersApart
      <3>2. CASE d = b /\ e # b
        BY <1>0, <1>2, <1>3, <2>2, <3>2
      <3>3. CASE e = b /\ d # b
        BY <1>0, <1>2, <1>3, <2>2, <3>3
      <3> QED BY <2>2, <3>1, <3>2, <3>3
    <2> QED BY <2>1, <2>2 DEF NumbersApart
  <1>6. ReplacedOrTogether'
    <2>1. ASSUME NEW d \in Browser, Pending(d)', NEW c \in Live'
          PROVE  c \in request'[d].replaced \/ {c.issue, request'[d].issue} \in together'
      <3>1. CASE d = b
        BY <1>0, <1>1, <3>1
      <3>2. CASE d # b
        BY <1>0, <1>1, <1>2, <2>1, <3>2 DEF CodesInv, ReplacedOrTogether
      <3> QED BY <3>1, <3>2
    <2>2. ASSUME NEW d \in Browser, d # b, Pending(d)'
          PROVE  {request'[d].issue, request'[b].issue} \in together'
      BY <1>0, <1>2, <2>2
    <2>3. ASSUME NEW d \in Browser, NEW e \in Browser, d # e, Pending(d)', Pending(e)'
          PROVE  {request'[d].issue, request'[e].issue} \in together'
      <3>1. CASE d # b /\ e # b
        BY <1>0, <1>2, <2>3, <3>1 DEF CodesInv, ReplacedOrTogether
      <3>2. {request'[e].issue, request'[d].issue} = {request'[d].issue, request'[e].issue}
        OBVIOUS
      <3> QED BY <2>2, <2>3, <3>1, <3>2
    <2> QED BY <2>1, <2>3 DEF ReplacedOrTogether
  <1>7. SpentStaysSpent'
    <2> SUFFICES ASSUME NEW p \in passed', p[1] = "recovery"
                 PROVE  /\ p[2][1] <= issued'
                        /\ \A c \in Live' : <<c.issue, c.n>> # p[2]
                        /\ \A d \in Browser : Pending(d)' => request'[d].issue # p[2][1]
      BY DEF SpentStaysSpent
    <2>1. p[2][1] \in Nat /\ p[2][1] <= issued
      BY <1>0 DEF CodesInv, SpentStaysSpent, TypeInv, Pass
    <2>2. \A c \in Live' : <<c.issue, c.n>> # p[2]
      BY <1>0, <1>1 DEF CodesInv, SpentStaysSpent
    <2>3. ASSUME NEW d \in Browser, Pending(d)' PROVE request'[d].issue # p[2][1]
      <3>1. CASE d = b
        BY <1>0, <1>3, <2>1, <3>1
      <3>2. CASE d # b
        BY <1>0, <1>2, <2>3, <3>2 DEF CodesInv, SpentStaysSpent
      <3> QED BY <3>1, <3>2
    <2> QED BY <1>0, <1>3, <2>1, <2>2, <2>3
  <1>8. NoRecoveryCodeTwice'
    BY <1>0 DEF CodesInv, NoRecoveryCodeTwice
  <1>9. OneLiveSet'
    BY <1>0, <1>1 DEF CodesInv, OneLiveSet
  <1> QED BY <1>5, <1>6, <1>7, <1>8, <1>9 DEF CodesInv

\* A set is committed.
LEMMA CodesCommitted ==
    ASSUME TypeInv, CodesInv, NEW b \in Browser, CommitStep(b)
    PROVE  CodesInv'
  <1> DEFINE new == [issue : {request[b].issue}, n : 1..RECOVERY_CODE_COUNT, used : {FALSE}]
  <1>0. /\ UNCHANGED <<issued, together>> /\ Issued(b) /\ Pending(b)
        /\ RecoveryOf(passed') \subseteq RecoveryOf(passed)
        /\ RecoveryOf(twice') \subseteq RecoveryOf(twice)
    BY DEF CommitStep, CommitTurnOn, CommitReissue, counters, histories, Pending, Accepted,
           RecoveryOf
  <1>1. /\ codes' = (codes \ request[b].replaced) \cup new
        /\ ~Pending(b)' /\ \A c \in Browser \ {b} : request'[c] = request[c]
    <2>1. codes' = (codes \ request[b].replaced) \cup new /\ Now(b, Idle)
      BY <1>0 DEF Issued, Replace
    <2>2. request'[b] = Idle /\ \A c \in Browser \ {b} : request'[c] = request[c]
      BY <2>1, NowChangesOne DEF TypeInv
    <2> QED BY <2>1, <2>2 DEF Pending, Idle
  <1>2. \A c \in new : c.issue = request[b].issue
    OBVIOUS
  <1> HIDE DEF new
  <1>3. \A c \in codes' : c \in codes \/ c.issue = request[b].issue
    BY <1>1, <1>2
  <1>4. \A c \in Live' : \/ c \in Live /\ c \notin request[b].replaced
                         \/ c.issue = request[b].issue
    BY <1>1, <1>2 DEF Live
  <1>5. \A d \in Browser : Pending(d)' => d # b /\ Pending(d) /\ request'[d] = request[d]
    BY <1>1 DEF Pending
  <1>6. NumbersApart'
    <2>1. ASSUME NEW d \in Browser, Pending(d)', NEW c \in codes'
          PROVE  c.issue # request'[d].issue
      BY <1>0, <1>3, <1>5, <2>1 DEF CodesInv, NumbersApart
    <2>2. ASSUME NEW d \in Browser, NEW e \in Browser, d # e, Pending(d)', Pending(e)'
          PROVE  request'[d].issue # request'[e].issue
      BY <1>5, <2>2 DEF CodesInv, NumbersApart
    <2> QED BY <2>1, <2>2 DEF NumbersApart
  <1>7. ReplacedOrTogether'
    <2>1. ASSUME NEW d \in Browser, Pending(d)', NEW c \in Live'
          PROVE  c \in request'[d].replaced \/ {c.issue, request'[d].issue} \in together'
      BY <1>0, <1>4, <1>5, <2>1 DEF CodesInv, ReplacedOrTogether
    <2>2. ASSUME NEW d \in Browser, NEW e \in Browser, d # e, Pending(d)', Pending(e)'
          PROVE  {request'[d].issue, request'[e].issue} \in together'
      BY <1>0, <1>5, <2>2 DEF CodesInv, ReplacedOrTogether
    <2> QED BY <2>1, <2>2 DEF ReplacedOrTogether
  <1>8. SpentStaysSpent'
    <2> SUFFICES ASSUME NEW p \in passed', p[1] = "recovery"
                 PROVE  /\ p[2][1] <= issued'
                        /\ \A c \in Live' : <<c.issue, c.n>> # p[2]
                        /\ \A d \in Browser : Pending(d)' => request'[d].issue # p[2][1]
      BY DEF SpentStaysSpent
    <2>1. p \in passed
      BY <1>0 DEF RecoveryOf
    <2>2. ASSUME NEW c \in Live', <<c.issue, c.n>> = p[2] PROVE FALSE
      <3>1. c.issue = p[2][1]
        BY <2>2
      <3> QED BY <1>0, <1>4, <2>1, <2>2, <3>1 DEF CodesInv, SpentStaysSpent
    <2>3. \A d \in Browser : Pending(d)' => request'[d].issue # p[2][1]
      BY <1>5, <2>1 DEF CodesInv, SpentStaysSpent
    <2> QED BY <1>0, <2>1, <2>2, <2>3 DEF CodesInv, SpentStaysSpent
  <1>9. NoRecoveryCodeTwice'
    BY <1>0 DEF CodesInv, NoRecoveryCodeTwice, RecoveryOf
  <1>10. OneLiveSet'
    <2> SUFFICES ASSUME NEW c \in Live', NEW d \in Live'
                 PROVE  c.issue = d.issue \/ {c.issue, d.issue} \in together'
      BY DEF OneLiveSet
    <2>1. \A e \in Live : e \notin request[b].replaced =>
              {e.issue, request[b].issue} \in together
      BY <1>0 DEF CodesInv, ReplacedOrTogether
    <2>2. {c.issue, d.issue} = {d.issue, c.issue}
      OBVIOUS
    <2>3. CASE c \in Live /\ d \in Live
      BY <1>0, <2>3 DEF CodesInv, OneLiveSet
    <2>4. CASE c \notin Live
      BY <1>0, <1>4, <2>1, <2>2, <2>4
    <2>5. CASE d \notin Live
      BY <1>0, <1>4, <2>1, <2>2, <2>5
    <2> QED BY <2>3, <2>4, <2>5
  <1> QED BY <1>6, <1>7, <1>8, <1>9, <1>10 DEF CodesInv

\* An administrator's reset takes the codes that are committed.
LEMMA CodesReset ==
    ASSUME TypeInv, CodesInv, Reset
    PROVE  CodesInv'
  <1>0. codes' = {} /\ UNCHANGED <<request, issued, passed, twice, together>>
    BY DEF Reset, histories
  <1>1. Live' = {}
    BY <1>0 DEF Live
  <1>2. \A d \in Browser : Pending(d)' <=> Pending(d)
    BY <1>0 DEF Pending
  <1>3. NumbersApart'
    BY <1>0, <1>2 DEF CodesInv, NumbersApart
  <1>4. ReplacedOrTogether'
    BY <1>0, <1>1, <1>2 DEF CodesInv, ReplacedOrTogether
  <1>5. SpentStaysSpent'
    BY <1>0, <1>1, <1>2 DEF CodesInv, SpentStaysSpent
  <1>6. NoRecoveryCodeTwice' /\ OneLiveSet'
    BY <1>0, <1>1 DEF CodesInv, NoRecoveryCodeTwice, OneLiveSet
  <1> QED BY <1>3, <1>4, <1>5, <1>6 DEF CodesInv

\* A request that moves on to a step that issues nothing.
LEMMA NothingIssued ==
    ASSUME TypeInv, NEW b \in Browser,
           UNCHANGED request \/ \E s : Now(b, s) /\ s.step \notin {"turning", "reissuing"}
    PROVE  \A c \in Browser : Pending(c)' => Pending(c) /\ request'[c] = request[c]
  <1>1. CASE UNCHANGED request
    BY <1>1 DEF Pending
  <1>2. CASE \E s : Now(b, s) /\ s.step \notin {"turning", "reissuing"}
    <2> PICK s : Now(b, s) /\ s.step \notin {"turning", "reissuing"}
      BY <1>2
    <2>1. request'[b] = s /\ \A c \in Browser \ {b} : request'[c] = request[c]
      BY NowChangesOne DEF TypeInv
    <2> QED BY <2>1 DEF Pending
  <1> QED BY <1>1, <1>2

\* The steps of the password and of enrolment leave the codes alone, and the
\* requests either stay or move on to a step that issues nothing.
LEMMA QuietSteps ==
    ASSUME NEW b \in Browser, PasswordStep(b) \/ EnrolmentStep(b)
    PROVE  /\ UNCHANGED <<now, codes, issued, resets, passed, twice, rewound, together>>
           /\ UNCHANGED request \/ \E s : Now(b, s) /\ s.step \notin {"turning", "reissuing"}
  <1>1. CASE PasswordStep(b)
    BY <1>1, PasswordStepIsLocal DEF counters, histories
  <1>2. CASE BeginEnrolment(b)
    <2>1. Now(b, [step |-> "drawing", row |-> credential'.row, saw |-> IsConfirmed])
      BY <1>2 DEF BeginEnrolment
    <2> QED BY <1>2, <2>1 DEF BeginEnrolment, counters, histories
  <1>3. CASE SaveSecret(b) \/ RowGone(b)
    BY <1>3 DEF SaveSecret, RowGone, counters, histories, Idle
  <1>4. CASE \E code \in Code : ConfirmEnrolment(b, code)
    <2> PICK code \in Code : ConfirmEnrolment(b, code)
      BY <1>4
    <2>1. Now(b, [step |-> "proved", row |-> credential.row, code |-> code])
      BY DEF ConfirmEnrolment
    <2> QED BY <2>1 DEF ConfirmEnrolment, counters
  <1> QED BY <1>1, <1>2, <1>3, <1>4 DEF EnrolmentStep

\* A one-time code is accepted at a sign-in.
LEMMA VerifyStep ==
    ASSUME NEW b \in Browser, NEW code \in Code, VerifyCode(b, code)
    PROVE  /\ UNCHANGED <<now, codes, attempts, request, drawn, issued, resets, proved, crossed,
                          rewound, together>>
           /\ passed' = passed \cup {<<"one-time", code>>}
           /\ twice' = IF <<"one-time", code>> \in passed
                       THEN twice \cup {<<"one-time", code>>} ELSE twice
  BY DEF VerifyCode, Accepted, counters

\* The recovery codes' invariant is inductive.
LEMMA CodesInductive == TypeInv /\ CodesInv /\ [Next]_vars => CodesInv'
  <1> SUFFICES ASSUME TypeInv, CodesInv, [Next]_vars PROVE CodesInv'
    OBVIOUS
  <1>1. CASE UNCHANGED vars \/ Tick
    <2>1. /\ UNCHANGED <<codes, together, issued, request, twice>>
          /\ passed' \subseteq passed
      BY <1>1 DEF vars, counters, histories, Tick
    <2>2. /\ RecoveryOf(passed') \subseteq RecoveryOf(passed)
          /\ RecoveryOf(twice') \subseteq RecoveryOf(twice)
      BY <2>1 DEF RecoveryOf
    <2>3. \A b \in Browser : Pending(b)' => Pending(b) /\ request'[b] = request[b]
      BY <2>1 DEF Pending
    <2> QED BY <2>1, <2>2, <2>3, CodesStay
  <1>2. ASSUME NEW b \in Browser, PasswordStep(b) \/ EnrolmentStep(b) PROVE CodesInv'
    <2>1. \A c \in Browser : Pending(c)' => Pending(c) /\ request'[c] = request[c]
      BY <1>2, QuietSteps, NothingIssued
    <2> QED BY <1>2, <2>1, QuietSteps, CodesStay DEF RecoveryOf
  <1>3. ASSUME NEW b \in Browser, NEW code \in Code, VerifyCode(b, code) PROVE CodesInv'
    <2>1. /\ UNCHANGED <<codes, together, issued, request>>
          /\ passed' \subseteq passed \cup {<<"one-time", code>>}
          /\ twice' \subseteq twice \cup {<<"one-time", code>>}
      BY <1>3, VerifyStep
    <2>2. /\ RecoveryOf(passed') \subseteq RecoveryOf(passed)
          /\ RecoveryOf(twice') \subseteq RecoveryOf(twice)
      BY <2>1 DEF RecoveryOf
    <2>3. \A c \in Browser : Pending(c)' => Pending(c) /\ request'[c] = request[c]
      BY <2>1 DEF Pending
    <2> QED BY <2>1, <2>2, <2>3, CodesStay
  <1>4. ASSUME NEW b \in Browser, FactorStep(b) PROVE CodesInv'
    BY <1>3, <1>4, CodesSpent DEF FactorStep
  <1>5. ASSUME NEW b \in Browser, IssueStep(b) \/ CommitStep(b) PROVE CodesInv'
    BY <1>5, CodesBegun, CodesCommitted
  <1> QED BY <1>1, <1>2, <1>4, <1>5, CodesReset, StepsOfNext

\* No code has been issued at the start.
LEMMA InitCodes == Init => CodesInv
  <1> SUFFICES ASSUME Init PROVE CodesInv
    OBVIOUS
  <1>1. \A b \in Browser : ~Pending(b)
    BY DEF Init, Idle, Pending
  <1> QED BY <1>1 DEF Init, CodesInv, NumbersApart, ReplacedOrTogether, SpentStaysSpent,
                      NoRecoveryCodeTwice, OneLiveSet, Live

\* Every step keeps the recovery codes in order.
LEMMA CodesHold == Spec => []CodesInv
  BY InitCodes, CodesInductive, TypesHold, PTL DEF Spec

\* However many browsers confirm, reissue and spend recovery codes while the
\* factor is reset, the codes that may still be used are those of one set, or of
\* sets that were being issued at the same moment.
THEOREM LiveCodesAreOneSet == Spec => []OneLiveSet
  <1>1. CodesInv => OneLiveSet
    BY DEF CodesInv
  <1> QED BY <1>1, CodesHold, PTL

-----------------------------------------------------------------------------
(***************************************************************************)
(* One-time codes.  While a factor is on, last_counter has passed every    *)
(* code of its secret that was accepted; while it is not, none was, and    *)
(* what waits to be confirmed was entered from a secret nothing was        *)
(* accepted from.  A confirmation over a confirmed factor breaks this, and *)
(* is what rewound records.                                                *)
(***************************************************************************)
CounterKeepsUp ==
    IsConfirmed =>
        \A p \in passed : p[1] = "one-time" /\ p[2][1] = credential.secret =>
                              p[2][2] <= credential.last_counter

FreshSecret ==
    credential # None /\ ~credential.confirmed =>
        \A p \in passed : p[1] = "one-time" => p[2][1] # credential.secret

FreshConfirmations ==
    credential # None /\ ~credential.confirmed =>
        \A b \in Browser : HoldsCode(b) /\ StillThere(b) =>
            \A p \in passed : p[1] = "one-time" => p[2][1] # request[b].code[1]

PassedSecretsDrawn == \A p \in passed : p[1] = "one-time" => p[2][1] \in 1..drawn

NoOneTimeCodeTwice == \A p \in twice : p[1] # "one-time"

CounterInv ==
    CounterKeepsUp /\ FreshSecret /\ FreshConfirmations /\ NoOneTimeCodeTwice

\* A code that waits to be confirmed is of a secret that was drawn.
ConfirmedSecretsDrawn == \A b \in Browser : HoldsCode(b) => request[b].code[1] \in 1..drawn

SecretsInv == PassedSecretsDrawn /\ ConfirmedSecretsDrawn /\ twice \subseteq Pass

\* A request that holds a code held the same one before, of the same row.
SameHeldCodes ==
    \A b \in Browser :
        HoldsCode(b)' => /\ HoldsCode(b) /\ request'[b].code = request[b].code
                         /\ request'[b].row = request[b].row

\* They hold over steps that accept no one-time code, keep the secret there is
\* and confirm nothing new.
LEMMA CountersStay ==
    ASSUME TypeInv, CounterInv,
           \A p \in passed' : p[1] = "one-time" => p \in passed,
           \A p \in twice' : p[1] = "one-time" => p \in twice,
           UNCHANGED credential,
           SameHeldCodes
    PROVE  CounterInv'
  <1>1. CounterKeepsUp' /\ FreshSecret'
    BY DEF CounterInv, CounterKeepsUp, FreshSecret, IsConfirmed
  <1>2. FreshConfirmations'
    BY DEF CounterInv, FreshConfirmations, StillThere, SameHeldCodes
  <1>3. NoOneTimeCodeTwice'
    BY DEF CounterInv, NoOneTimeCodeTwice
  <1> QED BY <1>1, <1>2, <1>3 DEF CounterInv

\* The secrets' own facts, over the same steps.
LEMMA SecretsStay ==
    ASSUME TypeInv, SecretsInv,
           \A p \in passed' : p[1] = "one-time" => p \in passed,
           twice' \subseteq Pass, drawn' \in Nat, drawn <= drawn', SameHeldCodes
    PROVE  SecretsInv'
  <1>1. PassedSecretsDrawn'
    BY DEF SecretsInv, PassedSecretsDrawn, TypeInv
  <1>2. ConfirmedSecretsDrawn'
    BY DEF SecretsInv, ConfirmedSecretsDrawn, SameHeldCodes, TypeInv
  <1> QED BY <1>1, <1>2 DEF SecretsInv

\* The requests of a step that moves one of them to a step without a code.
LEMMA NoCodeTaken ==
    ASSUME TypeInv, NEW b \in Browser,
           UNCHANGED request \/ \E s : Now(b, s) /\ s.step \notin {"proved", "turning"}
    PROVE  SameHeldCodes
  <1>1. CASE UNCHANGED request
    BY <1>1 DEF SameHeldCodes, HoldsCode
  <1>2. CASE \E s : Now(b, s) /\ s.step \notin {"proved", "turning"}
    <2> PICK s : Now(b, s) /\ s.step \notin {"proved", "turning"}
      BY <1>2
    <2>1. request'[b] = s /\ \A c \in Browser \ {b} : request'[c] = request[c]
      BY NowChangesOne DEF TypeInv
    <2> QED BY <2>1 DEF SameHeldCodes, HoldsCode
  <1> QED BY <1>1, <1>2

\* Steps that touch neither the factor nor the codes that were accepted.
LEMMA CountersUntouched ==
    ASSUME TypeInv, SecretsInv, rewound \/ CounterInv, NEW b \in Browser,
           PasswordStep(b) \/ RowGone(b) \/ IssueStep(b)
    PROVE  SecretsInv' /\ (rewound' \/ CounterInv')
  <1>0. UNCHANGED <<credential, drawn, passed, twice, rewound>>
    BY PasswordStepIsLocal DEF RowGone, IssueStep, TurnOn, RegenerateRecoveryCodes, counters,
                               histories
  <1>1. SameHeldCodes
    <2>1. CASE PasswordStep(b)
      BY <2>1, PasswordStepIsLocal, NoCodeTaken
    <2>2. CASE RowGone(b)
      BY <2>2, NoCodeTaken DEF RowGone, Idle
    <2>3. CASE IssueStep(b)
      BY <2>3, IssueBegins DEF SameHeldCodes, HoldsCode
    <2> QED BY <2>1, <2>2, <2>3
  <1>2. SecretsInv'
    BY <1>0, <1>1, SecretsStay DEF SecretsInv, TypeInv
  <1>3. CounterInv => CounterInv'
    BY <1>0, <1>1, CountersStay
  <1> QED BY <1>0, <1>2, <1>3

\* Enrolment: a new credential has no secret, a new secret was never entered
\* from, and what is confirmed is of the secret there is.
LEMMA CountersOverEnrolment ==
    ASSUME TypeInv, SecretsInv, rewound \/ CounterInv, NEW b \in Browser,
           EnrolmentStep(b), ~RowGone(b)
    PROVE  SecretsInv' /\ (rewound' \/ CounterInv')
  <1>0. UNCHANGED <<passed, twice, rewound>>
    BY QuietSteps
  <1>1. CASE BeginEnrolment(b)
    <2>1. SameHeldCodes
      <3>1. Now(b, [step |-> "drawing", row |-> credential'.row, saw |-> IsConfirmed])
        BY <1>1 DEF BeginEnrolment
      <3> QED BY <3>1, NoCodeTaken
    <2>2. SecretsInv' /\ (UNCHANGED credential /\ CounterInv => CounterInv')
      <3>1. UNCHANGED drawn
        BY <1>1 DEF BeginEnrolment, counters
      <3> QED BY <1>0, <2>1, <3>1, SecretsStay, CountersStay DEF SecretsInv, TypeInv
    <2>3. ASSUME credential = None, CounterInv PROVE CounterInv'
      <3>1. credential'.row = resets /\ credential'.secret = 0 /\ ~credential'.confirmed
        BY <1>1, <2>3 DEF BeginEnrolment
      <3>2. CounterKeepsUp' /\ FreshSecret'
        BY <1>0, <3>1 DEF CounterKeepsUp, FreshSecret, IsConfirmed, SecretsInv, PassedSecretsDrawn
      <3>3. ASSUME NEW c \in Browser, HoldsCode(c)', StillThere(c)' PROVE FALSE
        <4>1. HoldsRow(c) /\ request[c].row = resets
          BY <2>1, <3>1, <3>3 DEF SameHeldCodes, HoldsCode, HoldsRow, StillThere
        <4> QED BY <2>3, <4>1 DEF TypeInv, HeldRowsOK
      <3>4. FreshConfirmations'
        BY <3>3 DEF FreshConfirmations
      <3> QED BY <1>0, <2>3, <3>2, <3>4 DEF CounterInv, NoOneTimeCodeTwice
    <2>4. credential # None => UNCHANGED credential
      BY <1>1 DEF BeginEnrolment
    <2> QED BY <1>0, <2>2, <2>3, <2>4
  <1>2. CASE SaveSecret(b)
    <2>1. SameHeldCodes
      BY <1>2, NoCodeTaken DEF SaveSecret, Idle
    <2>2. drawn' = drawn + 1 /\ drawn \in Nat
      BY <1>2 DEF SaveSecret, TypeInv
    <2>3. SecretsInv'
      BY <1>0, <2>1, <2>2, SecretsStay DEF SecretsInv
    <2>4. credential \in MfaCredential /\ credential # None
      BY <1>2 DEF SaveSecret, StillThere, TypeInv, RowsOK
    <2>5. /\ credential' \in MfaCredential /\ credential'.secret = drawn + 1
          /\ credential'.row = credential.row /\ credential'.confirmed = credential.confirmed
          /\ credential'.last_counter = credential.last_counter
      BY <1>2, <2>2, <2>4 DEF SaveSecret, MfaCredential
    <2>6. ASSUME CounterInv PROVE CounterInv'
      <3>1. \A p \in passed' : p[1] = "one-time" => p[2][1] # credential'.secret
        BY <1>0, <2>2, <2>5 DEF SecretsInv, PassedSecretsDrawn
      <3>2. CounterKeepsUp' /\ FreshSecret'
        BY <3>1 DEF CounterKeepsUp, FreshSecret
      <3>3. FreshConfirmations'
        BY <1>0, <2>1, <2>4, <2>5, <2>6
        DEF CounterInv, FreshConfirmations, SameHeldCodes, StillThere
      <3> QED BY <1>0, <2>6, <3>2, <3>3 DEF CounterInv, NoOneTimeCodeTwice
    <2> QED BY <1>0, <2>3, <2>6
  <1>3. CASE \E code \in Code : ConfirmEnrolment(b, code)
    <2> PICK code \in Code : ConfirmEnrolment(b, code)
      BY <1>3
    <2>0. /\ UNCHANGED <<credential, drawn>>
          /\ credential # None /\ ~credential.confirmed /\ code[1] = credential.secret
      BY DEF ConfirmEnrolment, counters, Verified
    <2> DEFINE s == [step |-> "proved", row |-> credential.row, code |-> code]
    <2>1. request'[b] = s /\ \A c \in Browser \ {b} : request'[c] = request[c]
      <3>1. Now(b, s)
        BY DEF ConfirmEnrolment
      <3> QED BY <3>1, NowChangesOne DEF TypeInv
    <2>2. code[1] \in 1..drawn
      BY CodeType DEF TypeInv
    <2>3. SecretsInv'
      <3>1. ConfirmedSecretsDrawn'
        BY <2>0, <2>1, <2>2 DEF SecretsInv, ConfirmedSecretsDrawn, HoldsCode
      <3> QED BY <1>0, <2>0, <3>1 DEF SecretsInv, PassedSecretsDrawn
    <2>4. ASSUME CounterInv PROVE CounterInv'
      <3>1. CounterKeepsUp' /\ FreshSecret'
        BY <1>0, <2>0, <2>4 DEF CounterInv, CounterKeepsUp, FreshSecret, IsConfirmed
      <3>2. ASSUME NEW c \in Browser, HoldsCode(c)', StillThere(c)',
                   NEW p \in passed', p[1] = "one-time"
            PROVE  p[2][1] # request'[c].code[1]
        <4>1. CASE c = b
          BY <1>0, <2>0, <2>1, <2>4, <3>2, <4>1 DEF CounterInv, FreshSecret
        <4>2. CASE c # b
          BY <1>0, <2>0, <2>1, <2>4, <3>2, <4>2
          DEF CounterInv, FreshConfirmations, HoldsCode, StillThere
        <4> QED BY <4>1, <4>2
      <3>3. FreshConfirmations'
        BY <3>2 DEF FreshConfirmations
      <3> QED BY <1>0, <2>4, <3>1, <3>3 DEF CounterInv, NoOneTimeCodeTwice
    <2> QED BY <1>0, <2>3, <2>4
  <1> QED BY <1>1, <1>2, <1>3 DEF EnrolmentStep

\* A code is accepted at a sign-in: last_counter has passed it from now on, and
\* had not before.
LEMMA CountersOverVerify ==
    ASSUME TypeInv, SecretsInv, rewound \/ CounterInv, NEW b \in Browser,
           NEW code \in Code, VerifyCode(b, code)
    PROVE  SecretsInv' /\ (rewound' \/ CounterInv')
  <1> DEFINE pass == <<"one-time", code>>
  <1>0. /\ UNCHANGED <<request, drawn, rewound>>
        /\ passed' = passed \cup {pass}
        /\ twice' = IF pass \in passed THEN twice \cup {pass} ELSE twice
    BY VerifyStep
  <1>1. code \in Nat \X Nat /\ code[1] \in 1..drawn
    BY CodeType DEF TypeInv
  <1>2. pass[1] = "one-time" /\ pass[2] = code /\ pass \in Pass
    BY <1>1 DEF Pass
  <1> HIDE DEF pass
  <1>3. SecretsInv'
    <2>1. PassedSecretsDrawn' /\ twice' \subseteq Pass
      BY <1>0, <1>1, <1>2 DEF SecretsInv, PassedSecretsDrawn
    <2>2. ConfirmedSecretsDrawn'
      BY <1>0 DEF SecretsInv, ConfirmedSecretsDrawn, HoldsCode
    <2> QED BY <2>1, <2>2 DEF SecretsInv
  <1>4. /\ credential \in MfaCredential /\ credential # None /\ credential.confirmed
        /\ credential.last_counter \in Nat
    BY NoneAssumption
    DEF VerifyCode, MayVerify, IsConfirmed, TypeInv, RowsOK, MfaCredential
  <1>5. /\ credential' \in MfaCredential /\ credential'.secret = credential.secret
        /\ credential'.last_counter = code[2] /\ credential'.confirmed
    BY <1>1, <1>4 DEF VerifyCode, MfaCredential
  <1>6. code[1] = credential.secret /\ code[2] > credential.last_counter
    BY <1>4, NoneAssumption DEF VerifyCode, Verified, Fresh
  <1>7. ASSUME CounterInv PROVE CounterInv'
    <2>1. \A p \in passed : p[1] = "one-time" /\ p[2][1] = credential.secret =>
                                p[2][2] <= credential.last_counter
      BY <1>4, <1>7 DEF CounterInv, CounterKeepsUp, IsConfirmed
    <2>2. \A p \in passed : p[1] = "one-time" => p[2] \in Nat \X Nat
      BY DEF TypeInv, Pass
    <2>3. ASSUME NEW p \in passed', p[1] = "one-time", p[2][1] = credential'.secret
          PROVE  p[2][2] <= credential'.last_counter
      <3>1. CASE p \in passed
        BY <1>1, <1>4, <1>5, <1>6, <2>1, <2>2, <2>3, <3>1
      <3>2. CASE p = pass
        BY <1>1, <1>2, <1>5, <3>2
      <3> QED BY <1>0, <3>1, <3>2
    <2>4. CounterKeepsUp'
      BY <2>3 DEF CounterKeepsUp
    <2>5. pass \notin passed
      BY <1>1, <1>2, <1>4, <1>6, <2>1
    <2>6. NoOneTimeCodeTwice'
      BY <1>0, <1>7, <2>5 DEF CounterInv, NoOneTimeCodeTwice
    <2> QED BY <1>5, <2>4, <2>6 DEF CounterInv, FreshSecret, FreshConfirmations
  <1> QED BY <1>0, <1>3, <1>7

\* A recovery code is spent, a set reissued, the factor reset, or time passes.
LEMMA CountersOverOthers ==
    ASSUME TypeInv, SecretsInv, rewound \/ CounterInv,
           \/ Reset \/ Tick \/ UNCHANGED vars
           \/ \E b \in Browser : \/ CommitReissue(b)
                                 \/ \E code \in codes : SpendRecoveryCode(b, code)
    PROVE  SecretsInv' /\ (rewound' \/ CounterInv')
  <1>1. CASE Reset
    <2>0. UNCHANGED <<request, drawn, passed, twice, rewound>> /\ credential' = None
      BY <1>1 DEF Reset, histories
    <2>1. SecretsInv'
      BY <2>0 DEF SecretsInv, PassedSecretsDrawn, ConfirmedSecretsDrawn, HoldsCode
    <2>2. CounterInv => CounterInv'
      BY <2>0 DEF CounterInv, CounterKeepsUp, FreshSecret, FreshConfirmations,
                  NoOneTimeCodeTwice, IsConfirmed
    <2> QED BY <2>0, <2>1, <2>2
  <1>2. CASE Tick \/ UNCHANGED vars
    <2>0. UNCHANGED <<credential, request, drawn, twice, rewound>> /\ passed' \subseteq passed
      BY <1>2 DEF Tick, vars, counters, histories
    <2>1. SameHeldCodes
      BY <2>0 DEF SameHeldCodes, HoldsCode
    <2> QED BY <2>0, <2>1, SecretsStay, CountersStay DEF SecretsInv, TypeInv
  <1>3. ASSUME NEW b \in Browser, CommitReissue(b)
        PROVE  SecretsInv' /\ (rewound' \/ CounterInv')
    <2>0. UNCHANGED <<credential, drawn, passed, twice, rewound>> /\ Now(b, Idle)
      BY <1>3 DEF CommitReissue, counters, histories, Issued
    <2>1. SameHeldCodes
      BY <2>0, NoCodeTaken DEF Idle
    <2> QED BY <2>0, <2>1, SecretsStay, CountersStay DEF SecretsInv, TypeInv
  <1>4. ASSUME NEW b \in Browser, NEW code \in codes, SpendRecoveryCode(b, code)
        PROVE  SecretsInv' /\ (rewound' \/ CounterInv')
    <2> DEFINE pass == <<"recovery", <<code.issue, code.n>>>>
    <2>0. /\ UNCHANGED <<credential, request, drawn, rewound>>
          /\ passed' = passed \cup {pass}
          /\ twice' = IF pass \in passed THEN twice \cup {pass} ELSE twice
      BY <1>4 DEF SpendRecoveryCode, Accepted, counters
    <2>1. SameHeldCodes
      BY <2>0 DEF SameHeldCodes, HoldsCode
    <2>2. pass[1] # "one-time" /\ pass \in Pass
      BY SettingsAssumption DEF Pass, TypeInv, RowsOK, MfaRecoveryCode
    <2> HIDE DEF pass
    <2>3. /\ \A p \in passed' : p[1] = "one-time" => p \in passed
          /\ \A p \in twice' : p[1] = "one-time" => p \in twice
          /\ twice' \subseteq Pass
      BY <2>0, <2>2 DEF SecretsInv
    <2> QED BY <2>0, <2>1, <2>3, SecretsStay, CountersStay DEF TypeInv
  <1> QED BY <1>1, <1>2, <1>3, <1>4

\* A confirmation commits: over a factor that is off it accepts a code of a
\* secret nothing was accepted from, over one that is on it is recorded.
LEMMA CountersOverTurnOn ==
    ASSUME TypeInv, SecretsInv, rewound \/ CounterInv, NEW b \in Browser, CommitTurnOn(b)
    PROVE  SecretsInv' /\ (rewound' \/ CounterInv')
  <1> DEFINE code == request[b].code
             pass == <<"one-time", code>>
  <1>0. /\ UNCHANGED drawn /\ rewound' = (rewound \/ IsConfirmed) /\ Now(b, Idle)
        /\ passed' = passed \cup {pass}
        /\ twice' = IF pass \in passed THEN twice \cup {pass} ELSE twice
        /\ HoldsCode(b) /\ request[b].step = "turning"
    BY DEF CommitTurnOn, Issued, Accepted, counters, HoldsCode
  <1>1. code \in Nat \X Nat /\ code[1] \in 1..drawn
    BY <1>0 DEF TypeInv, RequestsOK, SecretsInv, ConfirmedSecretsDrawn
  <1>2. pass[1] = "one-time" /\ pass[2] = code /\ pass \in Pass
    BY <1>1 DEF Pass
  <1>3. SameHeldCodes
    BY <1>0, NoCodeTaken DEF Idle
  <1>4. SecretsInv'
    <2>1. PassedSecretsDrawn' /\ twice' \subseteq Pass
      BY <1>0, <1>1, <1>2 DEF SecretsInv, PassedSecretsDrawn
    <2>2. ConfirmedSecretsDrawn'
      BY <1>0, <1>3 DEF SecretsInv, ConfirmedSecretsDrawn, SameHeldCodes
    <2> QED BY <2>1, <2>2 DEF SecretsInv
  <1>5. credential \in MfaCredential /\ credential # None /\ StillThere(b)
    BY <1>0 DEF TypeInv, HeldRowsOK, StillThere, RowsOK
  <1>6. /\ credential' \in MfaCredential /\ credential'.secret = credential.secret
        /\ credential'.last_counter = code[2] /\ credential'.confirmed
    BY <1>1, <1>5 DEF CommitTurnOn, MfaCredential
  <1>7. ASSUME CounterInv, ~credential.confirmed PROVE CounterInv'
    <2>1. \A p \in passed : p[1] = "one-time" =>
              p[2][1] # credential.secret /\ p[2][1] # code[1]
      BY <1>0, <1>5, <1>7 DEF CounterInv, FreshSecret, FreshConfirmations
    <2>2. CounterKeepsUp'
      BY <1>0, <1>1, <1>2, <1>6, <2>1 DEF CounterKeepsUp
    <2>3. pass \notin passed
      BY <1>2, <2>1
    <2>4. NoOneTimeCodeTwice'
      BY <1>0, <1>7, <2>3 DEF CounterInv, NoOneTimeCodeTwice
    <2> QED BY <1>6, <2>2, <2>4 DEF CounterInv, FreshSecret, FreshConfirmations
  <1> QED BY <1>0, <1>4, <1>5, <1>7 DEF IsConfirmed

\* Nothing has been accepted at the start.
LEMMA InitCounters == Init => SecretsInv /\ CounterInv
  <1> SUFFICES ASSUME Init PROVE SecretsInv /\ CounterInv
    OBVIOUS
  <1>1. \A b \in Browser : ~HoldsCode(b)
    BY DEF Init, Idle, HoldsCode
  <1> QED BY <1>1 DEF Init, SecretsInv, CounterInv, PassedSecretsDrawn, ConfirmedSecretsDrawn,
                      CounterKeepsUp, FreshSecret, FreshConfirmations, NoOneTimeCodeTwice,
                      IsConfirmed

\* The counter's invariant is inductive, as long as no confirmation is repeated
\* over a confirmed factor.
LEMMA CountersInductive ==
    TypeInv /\ SecretsInv /\ (rewound \/ CounterInv) /\ [Next]_vars =>
        SecretsInv' /\ (rewound' \/ CounterInv')
  <1> SUFFICES ASSUME TypeInv, SecretsInv, rewound \/ CounterInv, [Next]_vars
               PROVE  SecretsInv' /\ (rewound' \/ CounterInv')
    OBVIOUS
  <1>1. ASSUME NEW b \in Browser, PasswordStep(b) \/ EnrolmentStep(b) \/ IssueStep(b)
        PROVE  SecretsInv' /\ (rewound' \/ CounterInv')
    BY <1>1, CountersUntouched, CountersOverEnrolment
  <1>2. ASSUME NEW b \in Browser, FactorStep(b) \/ CommitStep(b)
        PROVE  SecretsInv' /\ (rewound' \/ CounterInv')
    BY <1>2, CountersOverVerify, CountersOverOthers, CountersOverTurnOn DEF FactorStep, CommitStep
  <1> QED BY <1>1, <1>2, CountersOverOthers, StepsOfNext

\* The counters stay ahead of what was accepted, until one is rewound.
LEMMA CountersHold == Spec => [](SecretsInv /\ (rewound \/ CounterInv))
  BY InitCounters, CountersInductive, TypesHold, PTL DEF Spec

\* No code is accepted twice, by sign-ins at the same moment, by a confirmation
\* or by one after the other, a recovery code neither, for any number of
\* browsers and any window, unless a confirmation was repeated over a confirmed
\* factor.
THEOREM EveryCodePassesOnce == Spec => []OneCodeOnePass
  <1>1. TypeInv /\ CodesInv /\ SecretsInv /\ (rewound \/ CounterInv) => OneCodeOnePass
    BY DEF CodesInv, SecretsInv, CounterInv, NoRecoveryCodeTwice, NoOneTimeCodeTwice,
           OneCodeOnePass, Pass
  <1> QED BY <1>1, TypesHold, CodesHold, CountersHold, PTL

-----------------------------------------------------------------------------
(***************************************************************************)
(* What is confirmed was proved, and signing in.                           *)
(***************************************************************************)
\* Nobody opens an enrolment page, and nobody is signed in by the password
\* alone, who saw that a factor is on.
NothingOnWasSeen ==
    \A b \in Browser : request[b].step \in {"drawing", "enters"} => ~request[b].saw

\* While a confirmation holds the row, the secret of the row was entered from,
\* or was saved under a confirmation.
ConfirmedIsKnown ==
    \A b \in Browser : HoldsCode(b) /\ StillThere(b) => credential.secret \in proved \cup crossed

KnownInv == NothingOnWasSeen /\ ConfirmedIsKnown /\ EnrolledSecretWasProved

\* They hold over steps that keep the credential and confirm nothing new.
LEMMA KnownStays ==
    ASSUME TypeInv, KnownInv, UNCHANGED credential, SameHeldCodes,
           proved \subseteq proved', crossed \subseteq crossed', NothingOnWasSeen'
    PROVE  KnownInv'
  <1>1. ConfirmedIsKnown'
    BY DEF KnownInv, ConfirmedIsKnown, SameHeldCodes, StillThere
  <1>2. EnrolledSecretWasProved'
    BY DEF KnownInv, EnrolledSecretWasProved, IsConfirmed
  <1> QED BY <1>1, <1>2 DEF KnownInv

\* What the requests saw, over a step that moves one of them on.
LEMMA SeenKept ==
    ASSUME TypeInv, NothingOnWasSeen, NEW b \in Browser, NEW s, Now(b, s),
           s.step \in {"drawing", "enters"} => ~s.saw
    PROVE  NothingOnWasSeen'
  <1>1. request'[b] = s /\ \A c \in Browser \ {b} : request'[c] = request[c]
    BY NowChangesOne DEF TypeInv
  <1> QED BY <1>1 DEF NothingOnWasSeen

\* The password.
LEMMA KnownOverPassword ==
    ASSUME TypeInv, KnownInv, NEW b \in Browser, PasswordStep(b)
    PROVE  KnownInv'
  <1>1. SameHeldCodes /\ UNCHANGED <<credential, proved, crossed>>
    BY PasswordStepIsLocal, NoCodeTaken DEF histories
  <1>2. NothingOnWasSeen'
    <2>1. CASE CheckLockout(b)
      <3>1. UNCHANGED request \/ Now(b, [step |-> "password"])
        BY <2>1 DEF CheckLockout
      <3> QED BY <3>1, SeenKept DEF KnownInv, NothingOnWasSeen
    <2>2. CASE RightPassword(b)
      <3>1. CASE Now(b, Idle)
        BY <3>1, SeenKept DEF KnownInv, Idle
      <3>2. CASE Now(b, [step |-> "enters", saw |-> IsConfirmed]) /\ ~IsConfirmed
        BY <3>2, SeenKept DEF KnownInv
      <3> QED BY <2>2, <3>1, <3>2 DEF RightPassword
    <2>3. CASE WrongPassword(b) \/ Login(b)
      BY <2>3, SeenKept DEF WrongPassword, Login, KnownInv, Idle
    <2>4. CASE Logout(b) \/ ForgetPending(b)
      BY <2>4 DEF Logout, ForgetPending, KnownInv, NothingOnWasSeen
    <2> QED BY <2>1, <2>2, <2>3, <2>4 DEF PasswordStep
  <1> QED BY <1>1, <1>2, KnownStays

\* Enrolment: a secret saved under a confirmation, or over a factor that came on
\* since the page was opened, is recorded as such.
LEMMA KnownOverEnrolment ==
    ASSUME TypeInv, KnownInv, NEW b \in Browser, EnrolmentStep(b)
    PROVE  KnownInv'
  <1>1. CASE BeginEnrolment(b)
    <2>1. /\ Now(b, [step |-> "drawing", row |-> credential'.row, saw |-> IsConfirmed])
          /\ ~IsConfirmed /\ UNCHANGED <<proved, crossed>>
      BY <1>1 DEF BeginEnrolment, histories, MayBegin
    <2>2. NothingOnWasSeen'
      BY <2>1, SeenKept DEF KnownInv
    <2>3. SameHeldCodes
      BY <2>1, NoCodeTaken
    <2>4. CASE credential # None
      <3>1. UNCHANGED credential
        BY <1>1, <2>4 DEF BeginEnrolment
      <3> QED BY <2>1, <2>2, <2>3, <3>1, KnownStays
    <2>5. CASE credential = None
      <3>1. credential'.row = resets /\ ~credential'.confirmed
        BY <1>1, <2>5 DEF BeginEnrolment
      <3>2. ASSUME NEW c \in Browser, HoldsCode(c)', StillThere(c)' PROVE FALSE
        <4>1. HoldsRow(c) /\ request[c].row = resets
          BY <2>3, <3>1, <3>2 DEF SameHeldCodes, HoldsCode, HoldsRow, StillThere
        <4> QED BY <2>5, <4>1 DEF TypeInv, HeldRowsOK
      <3> QED BY <2>2, <3>1, <3>2
              DEF KnownInv, ConfirmedIsKnown, EnrolledSecretWasProved, IsConfirmed
    <2> QED BY <2>4, <2>5
  <1>2. CASE SaveSecret(b)
    <2>1. /\ request[b].step = "drawing" /\ Now(b, Idle) /\ UNCHANGED proved
          /\ crossed' = IF Confirming \/ (IsConfirmed /\ ~request[b].saw)
                        THEN crossed \cup {drawn + 1} ELSE crossed
      BY <1>2 DEF SaveSecret
    <2>2. NothingOnWasSeen'
      BY <2>1, SeenKept DEF KnownInv, Idle
    <2>3. SameHeldCodes
      BY <2>1, NoCodeTaken DEF Idle
    <2>4. credential \in MfaCredential /\ credential # None
      BY <1>2 DEF SaveSecret, StillThere, TypeInv, RowsOK
    <2>5. credential'.secret = drawn + 1 /\ credential'.confirmed = credential.confirmed
      BY <1>2, <2>4 DEF SaveSecret, MfaCredential
    <2>6. ~request[b].saw
      BY <2>1 DEF KnownInv, NothingOnWasSeen
    <2>7. EnrolledSecretWasProved'
      BY <2>1, <2>4, <2>5, <2>6 DEF EnrolledSecretWasProved, IsConfirmed
    <2>8. ASSUME NEW c \in Browser, HoldsCode(c)' PROVE drawn + 1 \in crossed'
      <3>1. Confirming
        BY <2>3, <2>8 DEF SameHeldCodes, HoldsCode, Confirming
      <3> QED BY <2>1, <3>1
    <2>9. ConfirmedIsKnown'
      BY <2>5, <2>8 DEF ConfirmedIsKnown
    <2> QED BY <2>2, <2>7, <2>9 DEF KnownInv
  <1>3. CASE \E code \in Code : ConfirmEnrolment(b, code)
    <2> PICK code \in Code : ConfirmEnrolment(b, code)
      BY <1>3
    <2>1. /\ Now(b, [step |-> "proved", row |-> credential.row, code |-> code])
          /\ proved' = proved \cup {credential.secret} /\ UNCHANGED <<credential, crossed>>
      BY DEF ConfirmEnrolment
    <2>2. NothingOnWasSeen'
      BY <2>1, SeenKept DEF KnownInv
    <2>3. ConfirmedIsKnown'
      BY <2>1 DEF ConfirmedIsKnown
    <2>4. EnrolledSecretWasProved'
      BY <2>1 DEF EnrolledSecretWasProved, IsConfirmed
    <2> QED BY <2>2, <2>3, <2>4 DEF KnownInv
  <1>4. CASE RowGone(b)
    <2>1. Now(b, Idle) /\ UNCHANGED <<credential, proved, crossed>>
      BY <1>4 DEF RowGone, histories
    <2>2. NothingOnWasSeen' /\ SameHeldCodes
      BY <2>1, SeenKept, NoCodeTaken DEF KnownInv, Idle
    <2> QED BY <2>1, <2>2, KnownStays
  <1> QED BY <1>1, <1>2, <1>3, <1>4 DEF EnrolmentStep

\* Sets of codes: a confirmation that began over the row there is ends over it.
LEMMA KnownOverIssues ==
    ASSUME TypeInv, KnownInv, NEW b \in Browser, IssueStep(b) \/ CommitStep(b)
    PROVE  KnownInv'
  <1>0. UNCHANGED <<proved, crossed>>
    BY DEF IssueStep, CommitStep, TurnOn, RegenerateRecoveryCodes, CommitTurnOn, CommitReissue,
           histories
  <1>1. CASE IssueStep(b)
    <2>1. UNCHANGED credential
      BY <1>1 DEF IssueStep, TurnOn, RegenerateRecoveryCodes
    <2>2. NothingOnWasSeen'
      BY <1>1, IssueBegins DEF KnownInv, NothingOnWasSeen
    <2>3. SameHeldCodes
      BY <1>1, IssueBegins DEF SameHeldCodes, HoldsCode
    <2> QED BY <1>0, <2>1, <2>2, <2>3, KnownStays
  <1>2. CASE CommitStep(b)
    <2>1. Now(b, Idle)
      BY <1>2 DEF CommitStep, CommitTurnOn, CommitReissue, Issued
    <2>2. NothingOnWasSeen' /\ SameHeldCodes
      BY <2>1, SeenKept, NoCodeTaken DEF KnownInv, Idle
    <2>3. CASE CommitReissue(b)
      BY <1>0, <2>2, <2>3, KnownStays DEF CommitReissue
    <2>4. CASE CommitTurnOn(b)
      <3>1. credential \in MfaCredential /\ StillThere(b) /\ HoldsCode(b)
        BY <2>4 DEF CommitTurnOn, TypeInv, HeldRowsOK, StillThere, RowsOK, HoldsCode
      <3>2. credential'.secret = credential.secret
        BY <2>4, <3>1 DEF CommitTurnOn, MfaCredential
      <3>3. credential.secret \in proved \cup crossed
        BY <3>1 DEF KnownInv, ConfirmedIsKnown
      <3>4. ConfirmedIsKnown' /\ EnrolledSecretWasProved'
        BY <1>0, <3>2, <3>3 DEF ConfirmedIsKnown, EnrolledSecretWasProved
      <3> QED BY <2>2, <3>4 DEF KnownInv
    <2> QED BY <1>2, <2>3, <2>4 DEF CommitStep
  <1> QED BY <1>1, <1>2

\* A sign-in by a code, a reset, time, and nothing at all.
LEMMA KnownOverOthers ==
    ASSUME TypeInv, KnownInv,
           \/ Reset \/ Tick \/ UNCHANGED vars
           \/ \E b \in Browser : FactorStep(b)
    PROVE  KnownInv'
  <1>0. UNCHANGED <<request, proved, crossed>>
    BY DEF Reset, Tick, vars, counters, histories, FactorStep, VerifyCode, SpendRecoveryCode
  <1>1. NothingOnWasSeen' /\ SameHeldCodes
    BY <1>0 DEF KnownInv, NothingOnWasSeen, SameHeldCodes, HoldsCode
  <1>2. CASE Reset
    <2>1. credential' = None
      BY <1>2 DEF Reset
    <2> QED BY <1>1, <2>1
            DEF KnownInv, ConfirmedIsKnown, EnrolledSecretWasProved, IsConfirmed, StillThere
  <1>3. CASE UNCHANGED credential
    BY <1>0, <1>1, <1>3, KnownStays
  <1>4. ASSUME NEW b \in Browser, NEW code \in Code, VerifyCode(b, code) PROVE KnownInv'
    <2>1. credential \in MfaCredential /\ credential # None /\ IsConfirmed
      BY <1>4 DEF VerifyCode, MayVerify, IsConfirmed, TypeInv, RowsOK
    <2>2. credential'.secret = credential.secret
      BY <1>4, <2>1 DEF VerifyCode, MfaCredential
    <2>3. credential.secret \in proved \cup crossed
      BY <2>1 DEF KnownInv, EnrolledSecretWasProved
    <2> QED BY <1>0, <1>1, <2>2, <2>3 DEF KnownInv, ConfirmedIsKnown, EnrolledSecretWasProved
  <1> QED BY <1>2, <1>3, <1>4 DEF Tick, vars, FactorStep, SpendRecoveryCode

\* Nothing has been shown at the start.
LEMMA InitKnown == Init => KnownInv
  BY DEF Init, KnownInv, NothingOnWasSeen, ConfirmedIsKnown, EnrolledSecretWasProved, IsConfirmed,
         HoldsCode, Idle

\* What is on was shown and answered, after every step.
LEMMA KnownHolds == Spec => []KnownInv
  <1>1. TypeInv /\ KnownInv /\ [Next]_vars => KnownInv'
    BY StepsOfNext, KnownOverPassword, KnownOverEnrolment, KnownOverIssues, KnownOverOthers
  <1> QED BY <1>1, InitKnown, TypesHold, PTL DEF Spec

\* The secret of a factor that is on is one a code was entered from, or one that
\* an enrolment page opened earlier saved during or after the confirmation.
THEOREM OnlyProvedSecretsAreOn == Spec => []EnrolledSecretWasProved
  <1>1. KnownInv => EnrolledSecretWasProved
    BY DEF KnownInv
  <1> QED BY <1>1, KnownHolds, PTL

-----------------------------------------------------------------------------
(***************************************************************************)
(* The lockout.  Wrong passwords that were judged, and passwords that will *)
(* be: a request that was let through saw fewer failures than the limit.   *)
(***************************************************************************)
JudgedAttempts == {a \in attempts : a.judged}
BeingJudged    == {b \in Browser : request[b].step = "password"}

LimitInv ==
    Cardinality(JudgedAttempts) + Cardinality(BeingJudged)
        <= LOGIN_FAILURE_LIMIT + Cardinality(Browser) - 1

\* The sets that are counted are finite.
LEMMA CountsAreNumbers ==
    ASSUME TypeInv
    PROVE  /\ IsFiniteSet(JudgedAttempts) /\ Cardinality(JudgedAttempts) \in Nat
           /\ IsFiniteSet(BeingJudged) /\ Cardinality(BeingJudged) \in Nat
           /\ Cardinality(JudgedAttempts) <= Cardinality(attempts)
           /\ Cardinality(BeingJudged) <= Cardinality(Browser)
           /\ Cardinality(attempts) \in Nat /\ Cardinality(Browser) \in Nat
           /\ Cardinality(Browser) >= 1 /\ LOGIN_FAILURE_LIMIT \in Nat
  <1>1. JudgedAttempts \subseteq attempts /\ BeingJudged \subseteq Browser
    BY DEF JudgedAttempts, BeingJudged
  <1>2. IsFiniteSet(attempts) /\ IsFiniteSet(Browser)
    BY SettingsAssumption DEF TypeInv
  <1>3. /\ IsFiniteSet(JudgedAttempts) /\ Cardinality(JudgedAttempts) <= Cardinality(attempts)
        /\ IsFiniteSet(BeingJudged) /\ Cardinality(BeingJudged) <= Cardinality(Browser)
    BY <1>1, <1>2, FS_Subset
  <1>4. Cardinality(Browser) # 0
    BY <1>2, FS_EmptySet, SettingsAssumption
  <1> QED BY <1>2, <1>3, <1>4, FS_CardinalityType, SettingsAssumption

\* Fewer of either count keep within the limit.
LEMMA LimitStays ==
    ASSUME TypeInv, TypeInv', LimitInv,
           JudgedAttempts' \subseteq JudgedAttempts, BeingJudged' \subseteq BeingJudged
    PROVE  LimitInv'
  <1>1. Cardinality(JudgedAttempts') <= Cardinality(JudgedAttempts)
    BY CountsAreNumbers, FS_Subset
  <1>2. Cardinality(BeingJudged') <= Cardinality(BeingJudged)
    BY CountsAreNumbers, FS_Subset
  <1>3. /\ Cardinality(JudgedAttempts') \in Nat /\ Cardinality(BeingJudged') \in Nat
        /\ Cardinality(JudgedAttempts) \in Nat /\ Cardinality(BeingJudged) \in Nat
    BY CountsAreNumbers, FS_Subset, FS_CardinalityType
  <1>4. Cardinality(Browser) \in Nat /\ LOGIN_FAILURE_LIMIT \in Nat
    BY CountsAreNumbers
  <1> QED BY <1>1, <1>2, <1>3, <1>4 DEF LimitInv

\* A password that is not being looked at any more.
LEMMA PasswordLeaves ==
    ASSUME TypeInv, NEW b \in Browser, request[b].step = "password", NEW s, Now(b, s),
           s.step # "password"
    PROVE  /\ BeingJudged' = BeingJudged \ {b}
           /\ Cardinality(BeingJudged') = Cardinality(BeingJudged) - 1
  <1>1. request'[b] = s /\ \A c \in Browser \ {b} : request'[c] = request[c]
    BY NowChangesOne DEF TypeInv
  <1>2. BeingJudged' = BeingJudged \ {b} /\ b \in BeingJudged
    BY <1>1 DEF BeingJudged
  <1> QED BY <1>2, CountsAreNumbers, FS_RemoveElement

\* The limit over the steps of the password.
LEMMA LimitOverPassword ==
    ASSUME TypeInv, TypeInv', LimitInv, NEW b \in Browser, PasswordStep(b)
    PROVE  LimitInv'
  <1>0. LOGIN_FAILURE_LIMIT \in Nat /\ Cardinality(Browser) \in Nat
    BY CountsAreNumbers
  <1>1. CASE CheckLockout(b)
    <2>1. CASE RegisterFailedLogin(FALSE) /\ UNCHANGED request
      <3>1. JudgedAttempts' = JudgedAttempts /\ BeingJudged' = BeingJudged
        BY <2>1 DEF RegisterFailedLogin, JudgedAttempts, BeingJudged
      <3> QED BY <3>1, LimitStays
    <2>2. CASE ~LockedOut /\ Now(b, [step |-> "password"]) /\ UNCHANGED attempts
      <3>1. Cardinality(attempts) < LOGIN_FAILURE_LIMIT
        BY <1>0, <2>2, CountsAreNumbers DEF LockedOut
      <3>2. JudgedAttempts' = JudgedAttempts
        BY <2>2 DEF JudgedAttempts
      <3>3. BeingJudged' \subseteq Browser
        BY DEF BeingJudged
      <3>4. /\ Cardinality(BeingJudged') <= Cardinality(Browser)
            /\ Cardinality(BeingJudged') \in Nat
        BY <3>3, FS_Subset, FS_CardinalityType, SettingsAssumption
      <3> QED BY <1>0, <3>1, <3>2, <3>4, CountsAreNumbers DEF LimitInv
    <2> QED BY <1>1, <2>1, <2>2 DEF CheckLockout
  <1>2. CASE WrongPassword(b)
    <2>1. Cardinality(BeingJudged') = Cardinality(BeingJudged) - 1
      BY <1>2, PasswordLeaves DEF WrongPassword, Idle
    <2>2. PICK row : attempts' = attempts \cup {row}
      BY <1>2 DEF WrongPassword, RegisterFailedLogin
    <2>3. JudgedAttempts' \subseteq JudgedAttempts \cup {row}
      BY <2>2 DEF JudgedAttempts
    <2>4. /\ Cardinality(JudgedAttempts \cup {row}) <= Cardinality(JudgedAttempts) + 1
          /\ IsFiniteSet(JudgedAttempts \cup {row})
          /\ Cardinality(JudgedAttempts \cup {row}) \in Nat
      <3>1. IsFiniteSet(JudgedAttempts) /\ Cardinality(JudgedAttempts) \in Nat
        BY CountsAreNumbers
      <3>2. /\ IsFiniteSet(JudgedAttempts \cup {row})
            /\ \/ Cardinality(JudgedAttempts \cup {row}) = Cardinality(JudgedAttempts)
               \/ Cardinality(JudgedAttempts \cup {row}) = Cardinality(JudgedAttempts) + 1
        BY <3>1, FS_AddElement
      <3> QED BY <3>1, <3>2
    <2>5. /\ Cardinality(JudgedAttempts') <= Cardinality(JudgedAttempts \cup {row})
          /\ Cardinality(JudgedAttempts') \in Nat
      BY <2>3, <2>4, FS_Subset, FS_CardinalityType
    <2> QED BY <1>0, <2>1, <2>4, <2>5, CountsAreNumbers DEF LimitInv
  <1>3. CASE RightPassword(b)
    <2>1. JudgedAttempts' = JudgedAttempts
      BY <1>3 DEF RightPassword, JudgedAttempts
    <2>2. CASE Now(b, Idle)
      BY <1>3, <2>1, <2>2, PasswordLeaves, LimitStays DEF RightPassword, Idle
    <2>3. CASE Now(b, [step |-> "enters", saw |-> IsConfirmed])
      BY <1>3, <2>1, <2>3, PasswordLeaves, LimitStays DEF RightPassword
    <2> QED BY <1>3, <2>2, <2>3 DEF RightPassword
  <1>4. CASE Login(b)
    <2>1. JudgedAttempts' = JudgedAttempts /\ Now(b, Idle)
      BY <1>4 DEF Login, JudgedAttempts
    <2>2. request'[b] = Idle /\ \A c \in Browser \ {b} : request'[c] = request[c]
      BY <2>1, NowChangesOne DEF TypeInv
    <2>3. BeingJudged' \subseteq BeingJudged
      BY <2>2 DEF BeingJudged, Idle
    <2> QED BY <2>1, <2>3, LimitStays
  <1>5. CASE Logout(b) \/ ForgetPending(b)
    <2>1. JudgedAttempts' = JudgedAttempts /\ BeingJudged' = BeingJudged
      BY <1>5 DEF Logout, ForgetPending, JudgedAttempts, BeingJudged
    <2> QED BY <2>1, LimitStays
  <1> QED BY <1>1, <1>2, <1>3, <1>4, <1>5 DEF PasswordStep

\* No other step looks at a password, and none but time touches the attempts.
LEMMA OthersJudgeNothing ==
    ASSUME TypeInv,
           \/ Reset \/ Tick \/ UNCHANGED vars
           \/ \E b \in Browser : EnrolmentStep(b) \/ FactorStep(b) \/ IssueStep(b) \/ CommitStep(b)
    PROVE  JudgedAttempts' \subseteq JudgedAttempts /\ BeingJudged' \subseteq BeingJudged
  <1>1. attempts' \subseteq attempts
    BY DEF Reset, Tick, vars, EnrolmentStep, FactorStep, IssueStep, CommitStep, BeginEnrolment,
           SaveSecret, ConfirmEnrolment, RowGone, VerifyCode, SpendRecoveryCode, TurnOn,
           RegenerateRecoveryCodes, CommitTurnOn, CommitReissue
  <1>2. ASSUME NEW b \in Browser, NEW s, Now(b, s), s.step # "password"
        PROVE  BeingJudged' \subseteq BeingJudged
    <2>1. request'[b] = s /\ \A c \in Browser \ {b} : request'[c] = request[c]
      BY <1>2, NowChangesOne DEF TypeInv
    <2> QED BY <1>2, <2>1 DEF BeingJudged
  <1>3. ASSUME UNCHANGED request PROVE BeingJudged' \subseteq BeingJudged
    BY <1>3 DEF BeingJudged
  <1>4. ASSUME NEW b \in Browser, EnrolmentStep(b)
        PROVE  BeingJudged' \subseteq BeingJudged
    <2>1. CASE BeginEnrolment(b)
      <3>1. Now(b, [step |-> "drawing", row |-> credential'.row, saw |-> IsConfirmed])
        BY <2>1 DEF BeginEnrolment
      <3> QED BY <1>2, <3>1
    <2>2. CASE SaveSecret(b) \/ RowGone(b)
      BY <1>2, <2>2 DEF SaveSecret, RowGone, Idle
    <2>3. CASE \E code \in Code : ConfirmEnrolment(b, code)
      <3> PICK code \in Code : ConfirmEnrolment(b, code)
        BY <2>3
      <3>1. Now(b, [step |-> "proved", row |-> credential.row, code |-> code])
        BY DEF ConfirmEnrolment
      <3> QED BY <1>2, <3>1
    <2> QED BY <1>4, <2>1, <2>2, <2>3 DEF EnrolmentStep
  <1>5. ASSUME NEW b \in Browser, IssueStep(b) PROVE BeingJudged' \subseteq BeingJudged
    BY <1>5, IssueBegins DEF BeingJudged
  <1>6. ASSUME NEW b \in Browser, CommitStep(b) PROVE BeingJudged' \subseteq BeingJudged
    BY <1>2, <1>6 DEF CommitStep, CommitTurnOn, CommitReissue, Issued, Idle
  <1>7. ASSUME NEW b \in Browser, FactorStep(b) PROVE BeingJudged' \subseteq BeingJudged
    BY <1>3, <1>7 DEF FactorStep, VerifyCode, SpendRecoveryCode
  <1>8. CASE Reset \/ Tick \/ UNCHANGED vars
    BY <1>1, <1>3, <1>8 DEF Reset, Tick, vars, JudgedAttempts
  <1>9. JudgedAttempts' \subseteq JudgedAttempts
    BY <1>1 DEF JudgedAttempts
  <1> QED BY <1>4, <1>5, <1>6, <1>7, <1>8, <1>9

\* Nobody has failed at the start.
LEMMA InitLimit == Init => LimitInv
  <1> SUFFICES ASSUME Init PROVE LimitInv
    OBVIOUS
  <1>1. JudgedAttempts = {} /\ BeingJudged = {}
    BY DEF Init, JudgedAttempts, BeingJudged, Idle
  <1>2. Cardinality(JudgedAttempts) = 0 /\ Cardinality(BeingJudged) = 0
    BY <1>1, FS_EmptySet
  <1> QED BY <1>2, InitTypes, CountsAreNumbers DEF LimitInv

\* The failures within the window stay within the limit.
LEMMA LimitHolds == Spec => []LimitInv
  <1>1. TypeInv /\ TypeInv' /\ LimitInv /\ [Next]_vars => LimitInv'
    BY StepsOfNext, LimitOverPassword, OthersJudgeNothing, LimitStays
  <1> QED BY <1>1, InitLimit, TypesHold, PTL DEF Spec

\* For any limit and any number of browsers: in a lockout window no more wrong
\* passwords are judged than the limit and what the others had in progress.
THEOREM LockoutHolds == Spec => []JudgedWithinLimit
  <1>1. TypeInv /\ LimitInv => JudgedWithinLimit
    BY CountsAreNumbers DEF LimitInv, JudgedWithinLimit, JudgedAttempts
  <1> QED BY <1>1, LimitHolds, TypesHold, PTL

-----------------------------------------------------------------------------
(***************************************************************************)
(* Signing in whole.                                                       *)
(***************************************************************************)
\* A code that lets a browser in leaves its mark on the factor or the codes.
LEMMA CodeIsUsedUp ==
    ASSUME TypeInv, NEW b \in Browser, FactorStep(b)
    PROVE  <<credential', codes'>> # <<credential, codes>>
  <1>1. ASSUME NEW code \in Code, VerifyCode(b, code) PROVE credential' # credential
    <2>1. code[2] \in Nat
      BY CodeType
    <2>2. /\ credential \in MfaCredential /\ credential.last_counter \in Nat
          /\ code[2] > credential.last_counter
      BY <1>1, NoneAssumption
      DEF VerifyCode, MayVerify, IsConfirmed, TypeInv, RowsOK, MfaCredential, Verified, Fresh
    <2>3. credential'.last_counter = code[2]
      BY <1>1, <2>2 DEF VerifyCode, MfaCredential
    <2> QED BY <2>1, <2>2, <2>3
  <1>2. ASSUME NEW code \in codes, SpendRecoveryCode(b, code) PROVE codes' # codes
    <2>1. code \in MfaRecoveryCode /\ ~code.used
      BY <1>2 DEF SpendRecoveryCode, TypeInv, RowsOK, Live
    <2>2. [code EXCEPT !.used = TRUE].used
      BY <2>1 DEF MfaRecoveryCode
    <2>3. code \notin codes'
      BY <1>2, <2>1, <2>2 DEF SpendRecoveryCode
    <2> QED BY <2>3
  <1> QED BY <1>1, <1>2 DEF FactorStep

\* What lets a browser in.
MaySignIn(b) ==
    \/ request[b].step = "enters" /\ ~request[b].saw
    \/ /\ IsConfirmed /\ <<credential', codes'>> # <<credential, codes>>
       /\ session[b].since # None /\ now - session[b].since <= PendingSteps

\* A session that is in has gone both halves.
LEMMA SignInIsWhole ==
    ASSUME TypeInv, KnownInv, [Next]_vars, NEW c \in Browser,
           session'[c].user, ~session[c].user
    PROVE  MaySignIn(c)
  <1>1. ASSUME NEW b \in Browser, FactorStep(b) PROVE MaySignIn(c)
    <2>1. MayVerify(b) /\ Enter(b)
      BY <1>1 DEF FactorStep, VerifyCode, SpendRecoveryCode
    <2>2. c = b
      BY <2>1 DEF Enter, TypeInv
    <2>3. session[b].since # None => session[b].since \in Nat
      BY DEF TypeInv, Session
    <2>4. now - session[b].since <= PendingSteps
      BY <2>1, <2>3, SettingsAssumption DEF MayVerify, Expired, TypeInv
    <2> QED BY <1>1, <2>1, <2>2, <2>4, CodeIsUsedUp DEF MaySignIn, MayVerify
  <1>2. ASSUME NEW b \in Browser, PasswordStep(b) PROVE MaySignIn(c)
    <2>1. CASE Login(b)
      <3>1. c = b
        BY <2>1 DEF Login, TypeInv
      <3> QED BY <2>1, <3>1 DEF Login, KnownInv, NothingOnWasSeen, MaySignIn
    <2>2. CASE RightPassword(b)
      BY <2>2 DEF RightPassword, TypeInv, Session
    <2>3. CASE Logout(b)
      BY <2>3 DEF Logout, TypeInv, Session, SignedOut
    <2>4. CASE ForgetPending(b)
      BY <2>4 DEF ForgetPending, TypeInv, Session
    <2>5. CASE CheckLockout(b) \/ WrongPassword(b)
      BY <2>5 DEF CheckLockout, WrongPassword
    <2> QED BY <1>2, <2>1, <2>2, <2>3, <2>4, <2>5 DEF PasswordStep
  <1>3. ASSUME NEW b \in Browser, EnrolmentStep(b) \/ IssueStep(b) \/ CommitStep(b)
        PROVE  UNCHANGED session
    BY <1>3 DEF EnrolmentStep, IssueStep, CommitStep, BeginEnrolment, SaveSecret,
                ConfirmEnrolment, RowGone, TurnOn, RegenerateRecoveryCodes, CommitTurnOn,
                CommitReissue
  <1>4. CASE Reset \/ Tick \/ UNCHANGED vars
    BY <1>4 DEF Reset, Tick, vars
  <1> QED BY <1>1, <1>2, <1>3, <1>4, StepsOfNext

\* Nobody is signed in but by a password that was right while no factor was on,
\* or by a code that is used up by it, within the time of the password; in any
\* step of any number of browsers.
THEOREM NobodyEntersByHalf == Spec => WholeSignIn
  <1>1. TypeInv /\ KnownInv /\ [Next]_vars =>
            [\A b \in Browser : session'[b].user /\ ~session[b].user =>
                 \/ request[b].step = "enters" /\ ~request[b].saw
                 \/ /\ IsConfirmed /\ <<credential', codes'>> # <<credential, codes>>
                    /\ session[b].since # None /\ now - session[b].since <= PendingSteps]_vars
    BY SignInIsWhole DEF MaySignIn
  <1> QED BY <1>1, TypesHold, KnownHolds, PTL DEF Spec, WholeSignIn

-----------------------------------------------------------------------------
(***************************************************************************)
(* The rows of attempts.  Two failures of one moment are two rows: what is *)
(* counted against the limit is the failures there were.                   *)
(***************************************************************************)
FailuresNumbered == \A a \in attempts : a.nth <= Cardinality(AttemptsAt(a.at))

\* The failures of a moment can be counted.
LEMMA AttemptsAtFinite ==
    ASSUME TypeInv, NEW moment
    PROVE  IsFiniteSet(AttemptsAt(moment)) /\ Cardinality(AttemptsAt(moment)) \in Nat
  BY FS_Subset, FS_CardinalityType DEF AttemptsAt, TypeInv

\* A failure that is registered has a row no other failure has, and counts.
LEMMA FailureCounts ==
    ASSUME TypeInv, FailuresNumbered, NEW judged \in BOOLEAN, RegisterFailedLogin(judged)
    PROVE  /\ Cardinality(attempts') = Cardinality(attempts) + 1
           /\ FailuresNumbered'
  <1> DEFINE row == [at |-> now, judged |-> judged, nth |-> Cardinality(AttemptsAt(now)) + 1]
  <1>1. attempts' = attempts \cup {row}
    BY DEF RegisterFailedLogin
  <1>2. row.at = now /\ row.nth = Cardinality(AttemptsAt(now)) + 1
    OBVIOUS
  <1> HIDE DEF row
  <1>3. \A a \in attempts : a.nth \in Nat
    BY DEF TypeInv, LoginAttempt
  <1>4. row \notin attempts
    BY <1>2, <1>3, AttemptsAtFinite DEF FailuresNumbered
  <1>5. Cardinality(attempts') = Cardinality(attempts) + 1
    BY <1>1, <1>4, FS_AddElement DEF TypeInv
  <1>6. ASSUME NEW a \in attempts'
        PROVE  a.nth <= Cardinality({c \in attempts' : c.at = a.at})
    <2> DEFINE same == {c \in attempts' : c.at = a.at}
    <2>1. CASE a.at = now
      <3>1. same = AttemptsAt(now) \cup {row}
        BY <1>1, <1>2, <2>1 DEF AttemptsAt
      <3> HIDE DEF same
      <3>2. row \notin AttemptsAt(now)
        BY <1>4 DEF AttemptsAt
      <3>3. Cardinality(AttemptsAt(now) \cup {row}) = Cardinality(AttemptsAt(now)) + 1
        BY <3>2, AttemptsAtFinite, FS_AddElement
      <3>4. CASE a = row
        <4>1. a.nth <= Cardinality(same)
          BY <1>2, <3>1, <3>3, <3>4, AttemptsAtFinite
        <4> QED BY <4>1 DEF same
      <3>5. CASE a \in attempts
        <4>1. a.nth \in Nat /\ a.nth <= Cardinality(AttemptsAt(now))
          BY <1>3, <2>1, <3>5 DEF FailuresNumbered
        <4>2. Cardinality(AttemptsAt(now)) \in Nat
          BY AttemptsAtFinite
        <4>3. a.nth <= Cardinality(same)
          BY <3>1, <3>3, <4>1, <4>2
        <4> QED BY <4>3 DEF same
      <3> QED BY <1>1, <3>4, <3>5
    <2>2. CASE a.at # now
      <3>1. same = AttemptsAt(a.at) /\ a \in attempts
        BY <1>1, <1>2, <2>2 DEF AttemptsAt
      <3> QED BY <3>1 DEF FailuresNumbered
    <2> QED BY <2>1, <2>2
  <1>7. FailuresNumbered'
    BY <1>6 DEF FailuresNumbered, AttemptsAt
  <1> QED BY <1>5, <1>7

\* Failures age out by whole moments.
LEMMA FailuresAge ==
    ASSUME TypeInv, FailuresNumbered, Tick
    PROVE  FailuresNumbered'
  <1>1. attempts' = {a \in attempts : a.at + LockoutSteps >= now'}
    BY DEF Tick
  <1>2. ASSUME NEW a \in attempts'
        PROVE  {c \in attempts' : c.at = a.at} = AttemptsAt(a.at) /\ a \in attempts
    BY <1>1 DEF AttemptsAt
  <1> QED BY <1>2 DEF FailuresNumbered, AttemptsAt

\* However many browsers fail in one moment, their failures are told apart.
LEMMA FailuresHold == Spec => []FailuresNumbered
  <1>1. Init => FailuresNumbered
    BY DEF Init, FailuresNumbered
  <1>2. TypeInv /\ FailuresNumbered /\ [Next]_vars => FailuresNumbered'
    <2> SUFFICES ASSUME TypeInv, FailuresNumbered, [Next]_vars PROVE FailuresNumbered'
      OBVIOUS
    <2>1. CASE UNCHANGED attempts
      BY <2>1 DEF FailuresNumbered, AttemptsAt
    <2>2. ASSUME NEW b \in Browser, PasswordStep(b) PROVE FailuresNumbered'
      <3>1. UNCHANGED attempts \/ \E judged \in BOOLEAN : RegisterFailedLogin(judged)
        BY <2>2 DEF PasswordStep, CheckLockout, WrongPassword, RightPassword, Login, Logout,
                    ForgetPending
      <3> QED BY <2>1, <3>1, FailureCounts
    <2>3. ASSUME NEW b \in Browser,
                 EnrolmentStep(b) \/ FactorStep(b) \/ IssueStep(b) \/ CommitStep(b)
          PROVE  UNCHANGED attempts
      BY <2>3 DEF EnrolmentStep, FactorStep, IssueStep, CommitStep, BeginEnrolment, SaveSecret,
                  ConfirmEnrolment, RowGone, VerifyCode, SpendRecoveryCode, TurnOn,
                  RegenerateRecoveryCodes, CommitTurnOn, CommitReissue
    <2> QED BY <2>1, <2>2, <2>3, FailuresAge, StepsOfNext DEF Reset, vars
  <1> QED BY <1>1, <1>2, TypesHold, PTL DEF Spec

=============================================================================
