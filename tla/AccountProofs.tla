--------------------------- MODULE AccountProofs ---------------------------
(***************************************************************************)
(* Proofs about Account: its types, and that a refresh spends no token     *)
(* that is still good and a logout holds, for any accounts, probes, logins *)
(* and events.                                                             *)
(***************************************************************************)
EXTENDS Account, TLAPS

----------------------------------------------------------------------------
(* Calls.                                                                  *)
\* A caller's record, when what is in it is known.
LEMMA CallFields ==
  ASSUME NEW r \in Call
  PROVE  /\ r.at \in {"idle", "cache", "sent", "refresh", "exchange", "have", "unlinked",
                      "failed", "request", "tokens", "set", "named", "clear", "invalidate"}
         /\ r.token \in Nat /\ r.token \in Token
         /\ r.again \in BOOLEAN
         /\ r.info \in Accounts \cup {None} /\ r.who \in Accounts \cup {None}
  BY AccountAssumption DEF Call, Token, MaxTokens

LEMMA IdleFields ==
  Idle \in Call /\ Idle.at = "idle" /\ Idle.token = 0 /\ Idle.who = None /\ Idle.info = None
  BY AccountAssumption DEF Idle, Call, Token, MaxTokens

\* The next step of a request keeps the account resolved and forgets the rest.
LEMMA StepFields ==
  ASSUME NEW c \in Callers, call \in [Callers -> Call],
         NEW at \in {"idle", "cache", "sent", "refresh", "exchange", "have", "unlinked",
                     "failed", "request", "tokens", "set", "named", "clear", "invalidate"}
  PROVE  /\ Step(c, at) \in Call
         /\ Step(c, at).at = at /\ Step(c, at).token = 0
         /\ Step(c, at).info = None /\ Step(c, at).who = call[c].who
  <1>1. call[c].who \in Accounts \cup {None} BY CallFields
  <1>2. [Idle EXCEPT !.at = at] \in Call BY IdleFields DEF Call
  <1>3. Step(c, at) = [[Idle EXCEPT !.at = at] EXCEPT !.who = call[c].who] BY DEF Step
  <1>4. Step(c, at) \in Call BY <1>1, <1>2, <1>3 DEF Call
  <1>5. /\ Step(c, at).at = at /\ Step(c, at).token = 0
        /\ Step(c, at).info = None /\ Step(c, at).who = call[c].who
    BY <1>3, <1>1 DEF Idle
  <1> QED BY <1>4, <1>5

LEMMA SentFields ==
  ASSUME NEW c \in Callers, call \in [Callers -> Call], NEW token \in Token,
         NEW again \in BOOLEAN
  PROVE  /\ Sent(c, token, again) \in Call
         /\ Sent(c, token, again).at = IF token = 0 THEN "unlinked" ELSE "sent"
         /\ Sent(c, token, again).token = token
         /\ Sent(c, token, again).who = call[c].who
  <1>1. call[c].who \in Accounts \cup {None} BY CallFields
  <1>2. CASE token = 0 BY <1>2, StepFields DEF Sent
  <1>3. CASE token # 0
    <2>1. Sent(c, token, again) = [at |-> "sent", token |-> token, again |-> again,
                                   info |-> None, who |-> call[c].who]
      BY <1>3 DEF Sent, Step, Idle
    <2> QED BY <1>1, <1>3, <2>1 DEF Call
  <1> QED BY <1>2, <1>3

----------------------------------------------------------------------------
(* Types.  TypeOK is not inductive: the tokens of calls and of the file must *)
(* have been issued, and only a refused token is exchanged.                  *)
TokensOK ==
  /\ credentials \in Credentials /\ stored \in Credentials /\ unsaved \in BOOLEAN
  /\ issued \in Seq(Accounts) /\ Len(issued) <= MaxTokens /\ expired \subseteq 1..Len(issued)
  /\ credentials.token <= Len(issued) /\ stored.token <= Len(issued)
  /\ driveInfo \in Accounts \cup {None}

CallsOK ==
  /\ call \in [Callers -> Call]
  /\ \A c \in Callers :
       /\ call[c].token <= Len(issued)
       /\ call[c].at \in {"refresh", "exchange"} => call[c].token \in expired

LockOK ==
  IF refreshMu = None THEN \A c \in Callers : call[c].at # "exchange"
  ELSE /\ refreshMu \in Callers
       /\ \A c \in Callers : call[c].at = "exchange" <=> c = refreshMu

LoginOK ==
  /\ session \in [Session -> {"new", "waiting", "finishing", "done", "failed"}]
  /\ login \in 0..MaxLogins /\ confirming \in 0..MaxLogins

ProbesOK ==
  /\ probes \in [shown: Accounts \cup {None}, refreshing: BOOLEAN, rerun: BOOLEAN]
  /\ outdated \subseteq Probers

HistoryOK == events \in 0..MaxEvents /\ loggedOut \in BOOLEAN /\ stray \in BOOLEAN

Typed == TokensOK /\ CallsOK /\ LockOK /\ LoginOK /\ ProbesOK /\ HistoryOK

LEMMA TypedImplies == Typed => TypeOK
  <1> SUFFICES ASSUME Typed PROVE TypeOK OBVIOUS
  <1>1. IF refreshMu = None THEN \A c \in Callers : call[c].at # "exchange"
        ELSE refreshMu \in Callers /\ call[refreshMu].at = "exchange"
    BY DEF Typed, LockOK
  <1> QED BY <1>1 DEF Typed, TypeOK, TokensOK, CallsOK, LoginOK, ProbesOK, HistoryOK

LEMMA CallersAre ==
  /\ Probers \subseteq Callers /\ "work" \in Callers /\ "login" \in Callers
  /\ "logout" \in Callers /\ "page" \in Callers /\ None \notin Callers
  /\ "work" \notin Probers /\ "login" \notin Probers /\ "logout" \notin Probers
  /\ "page" \notin Probers
  BY AccountAssumption DEF Callers

LEMMA LenIs == TokensOK => Len(issued) \in Nat /\ 0 <= Len(issued)
  BY DEF TokensOK

\* A token that was issued belongs to an account.
LEMMA OwnerIs ==
  ASSUME TokensOK, NEW t \in Token, t <= Len(issued)
  PROVE  /\ Owner(t) \in Accounts \cup {None}
         /\ t # 0 => Owner(t) \in Accounts
  BY AccountAssumption DEF TokensOK, Owner, Token, MaxTokens

\* A step of one caller, while tokens are only added and refused.
LEMMA CallsStep ==
  ASSUME CallsOK, NEW c \in Callers, NEW r \in Call,
         call' = [call EXCEPT ![c] = r],
         r.token <= Len(issued'), r.at \in {"refresh", "exchange"} => r.token \in expired',
         Len(issued) \in Nat, Len(issued') \in Nat, Len(issued) <= Len(issued'),
         expired \subseteq expired'
  PROVE  CallsOK'
  <1>1. call' \in [Callers -> Call] BY DEF CallsOK
  <1>2. ASSUME NEW d \in Callers
        PROVE  /\ call'[d].token <= Len(issued')
               /\ call'[d].at \in {"refresh", "exchange"} => call'[d].token \in expired'
    <2>1. CASE d = c BY <2>1 DEF CallsOK
    <2>2. CASE d # c
      <3>1. call'[d] = call[d] BY <2>2 DEF CallsOK
      <3>2. call[d].token \in Nat BY CallFields DEF CallsOK
      <3> QED BY <3>1, <3>2 DEF CallsOK
    <2> QED BY <2>1, <2>2
  <1> QED BY <1>1, <1>2 DEF CallsOK

LEMMA LockStep ==
  ASSUME CallsOK, LockOK, NEW c \in Callers, NEW r \in Call,
         call' = [call EXCEPT ![c] = r], r.at # "exchange", call[c].at # "exchange",
         refreshMu' = refreshMu
  PROVE  LockOK'
  <1>1. \A d \in Callers : (call'[d].at = "exchange") = (call[d].at = "exchange")
    BY DEF CallsOK
  <1> QED BY <1>1 DEF LockOK

\* A step of one caller that neither takes nor gives up the lock.
LEMMA CallMoves ==
  ASSUME Typed, NEW c \in Callers, NEW r \in Call,
         call' = [call EXCEPT ![c] = r], r.at # "exchange", call[c].at # "exchange",
         r.token <= Len(issued), r.at = "refresh" => r.token \in expired,
         UNCHANGED <<issued, expired, refreshMu>>
  PROVE  CallsOK' /\ LockOK'
  <1>1. TokensOK /\ CallsOK /\ LockOK /\ Len(issued) \in Nat BY LenIs DEF Typed
  <1>2. /\ Len(issued') \in Nat /\ Len(issued) <= Len(issued') /\ expired \subseteq expired'
        /\ r.token <= Len(issued') /\ (r.at \in {"refresh", "exchange"} => r.token \in expired')
        /\ refreshMu' = refreshMu
    BY <1>1
  <1>3. CallsOK' BY <1>1, <1>2, CallsStep
  <1>4. LockOK' BY <1>1, <1>2, LockStep
  <1> QED BY <1>3, <1>4

\* The same, where the next step is known by its place only.
LEMMA StepMoves ==
  ASSUME Typed, NEW c \in Callers, call[c].at # "exchange",
         NEW at \in {"idle", "cache", "sent", "have", "unlinked", "failed", "request",
                     "tokens", "set", "named", "clear", "invalidate"},
         call' = [call EXCEPT ![c] = Step(c, at)], UNCHANGED <<issued, expired, refreshMu>>
  PROVE  CallsOK' /\ LockOK'
  <1> DEFINE r == Step(c, at)
  <1>1. TokensOK /\ CallsOK /\ 0 <= Len(issued) BY LenIs DEF Typed
  <1>2. r \in Call /\ r.at = at /\ r.token = 0 BY <1>1, StepFields DEF CallsOK
  <1> HIDE DEF r
  <1>3. call' = [call EXCEPT ![c] = r] BY DEF r
  <1> QED BY <1>1, <1>2, <1>3, CallMoves

LEMMA IdleAtFields ==
  ASSUME NEW at \in {"idle", "cache", "sent", "have", "unlinked", "failed", "request",
                     "tokens", "set", "named", "clear", "invalidate"}
  PROVE  /\ [Idle EXCEPT !.at = at] \in Call
         /\ [Idle EXCEPT !.at = at].at = at
         /\ [Idle EXCEPT !.at = at].token = 0
         /\ [Idle EXCEPT !.at = at].who = None
  <1>1. [Idle EXCEPT !.at = at] \in Call BY IdleFields DEF Call
  <1> QED BY <1>1 DEF Idle

LEMMA IdleMoves ==
  ASSUME Typed, NEW c \in Callers, call[c].at # "exchange",
         NEW at \in {"idle", "cache", "sent", "have", "unlinked", "failed", "request",
                     "tokens", "set", "named", "clear", "invalidate"},
         call' = [call EXCEPT ![c] = [Idle EXCEPT !.at = at]],
         UNCHANGED <<issued, expired, refreshMu>>
  PROVE  CallsOK' /\ LockOK'
  <1> DEFINE r == [Idle EXCEPT !.at = at]
  <1>1. TokensOK /\ CallsOK /\ 0 <= Len(issued) BY LenIs DEF Typed
  <1>2. r \in Call /\ r.at = at /\ r.token = 0 BY IdleAtFields
  <1> HIDE DEF r
  <1>3. call' = [call EXCEPT ![c] = r] BY DEF r
  <1> QED BY <1>1, <1>2, <1>3, CallMoves

LEMMA IdleStays ==
  ASSUME Typed, NEW c \in Callers, call[c].at # "exchange",
         call' = [call EXCEPT ![c] = Idle], UNCHANGED <<issued, expired, refreshMu>>
  PROVE  CallsOK' /\ LockOK'
  <1>1. TokensOK /\ CallsOK /\ 0 <= Len(issued) BY LenIs DEF Typed
  <1> QED BY <1>1, IdleFields, CallMoves

LEMMA CallStays ==
  ASSUME Typed, UNCHANGED <<call, issued, expired, refreshMu>>  PROVE CallsOK' /\ LockOK'
  BY DEF Typed, CallsOK, LockOK

LEMMA HistoryStays ==
  ASSUME Typed, events' = events \/ Event, UNCHANGED historyVars  PROVE HistoryOK'
  BY AccountAssumption DEF Typed, HistoryOK, Event, historyVars

\* A step that moves some callers, none of them with the lock.
LEMMA CallsPointwise ==
  ASSUME Typed, call' \in [Callers -> Call], UNCHANGED <<issued, expired, refreshMu>>,
         \A d \in Callers :
           \/ call'[d] = call[d]
           \/ /\ call[d].at # "exchange" /\ call'[d].at \notin {"refresh", "exchange"}
              /\ call'[d].token <= Len(issued)
  PROVE  CallsOK' /\ LockOK'
  <1>1. CallsOK' BY DEF Typed, CallsOK
  <1>2. \A d \in Callers : (call'[d].at = "exchange") = (call[d].at = "exchange") OBVIOUS
  <1>3. LockOK' BY <1>2 DEF Typed, LockOK
  <1> QED BY <1>1, <1>3

\* The goroutine a probe is launched in was idle.
LEMMA LaunchIs ==
  ASSUME NEW calls \in [Callers -> Call], Launch(calls)
  PROVE  /\ call' \in [Callers -> Call]
         /\ \E p \in Probers :
              /\ calls[p].at = "idle" /\ call'[p].at = "cache"
              /\ call'[p].token = calls[p].token /\ call'[p].who = calls[p].who
              /\ \A d \in Callers \ {p} : call'[d] = calls[d]
  <1> DEFINE p == CHOOSE q \in Probers : calls[q].at = "idle"
             r == [calls[p] EXCEPT !.at = "cache"]
  <1>1. p \in Probers /\ calls[p].at = "idle" BY DEF Launch
  <1>2. call' = [calls EXCEPT ![p] = r] BY DEF Launch
  <1> HIDE DEF p
  <1>3. p \in Callers BY <1>1, CallersAre
  <1>4. calls[p] \in Call BY <1>3
  <1>5. r \in Call /\ r.at = "cache" /\ r.token = calls[p].token /\ r.who = calls[p].who
    BY <1>4 DEF Call
  <1> HIDE DEF r
  <1>6. call' \in [Callers -> Call] /\ call'[p] = r BY <1>2, <1>3, <1>5
  <1>7. \A d \in Callers \ {p} : call'[d] = calls[d] BY <1>2
  <1> QED BY <1>1, <1>5, <1>6, <1>7

----------------------------------------------------------------------------
(* Each step keeps the types.                                              *)
LEMMA InitTyped == Init => Typed
  <1> SUFFICES ASSUME Init PROVE Typed OBVIOUS
  <1>1. TokensOK
    <2>1. CASE Linked = None
      <3>1. issued = <<>> /\ credentials = NoCredentials /\ stored = credentials /\ expired = {}
            /\ unsaved = FALSE /\ driveInfo = None
        BY <2>1 DEF Init
      <3>2. issued \in Seq(Accounts) /\ Len(issued) = 0 BY <3>1
      <3>3. MaxTokens \in Nat /\ 0 \in Token BY AccountAssumption DEF Token, MaxTokens
      <3>4. credentials \in Credentials /\ credentials.token = 0
        BY <3>1, <3>3 DEF Credentials, NoCredentials
      <3>5. expired \subseteq 1..Len(issued) BY <3>1
      <3>6. Len(issued) <= MaxTokens /\ credentials.token <= Len(issued)
            /\ stored.token <= Len(issued)
        BY <3>1, <3>2, <3>3, <3>4
      <3> QED BY <3>1, <3>2, <3>4, <3>5, <3>6 DEF TokensOK
    <2>2. CASE Linked # None
      <3>1. Linked \in Accounts /\ issued = <<Linked>> /\ Len(issued) = 1
        BY <2>2, AccountAssumption DEF Init
      <3>2. credentials = [token |-> 1, user |-> Linked] /\ stored = credentials /\ expired = {}
        BY <2>2 DEF Init
      <3>3. 1 \in Token /\ 1 <= MaxTokens BY AccountAssumption DEF Token, MaxTokens
      <3>4. credentials \in Credentials /\ credentials.token = 1
        BY <3>1, <3>2, <3>3 DEF Credentials
      <3>5. issued \in Seq(Accounts) BY <3>1
      <3>6. unsaved = FALSE /\ driveInfo = None BY DEF Init
      <3>7. expired \subseteq 1..Len(issued) BY <3>2
      <3>8. Len(issued) <= MaxTokens /\ credentials.token <= Len(issued)
            /\ stored.token <= Len(issued)
        BY <3>1, <3>2, <3>3, <3>4
      <3> QED BY <3>2, <3>4, <3>5, <3>6, <3>7, <3>8 DEF TokensOK
    <2> QED BY <2>1, <2>2
  <1>2. CallsOK
    <2>1. Len(issued) \in Nat /\ 0 <= Len(issued) BY <1>1, LenIs
    <2>2. \A c \in Callers : call[c] = Idle BY DEF Init
    <2>3. call \in [Callers -> Call] BY IdleFields DEF Init
    <2> QED BY <2>1, <2>2, <2>3, IdleFields DEF CallsOK
  <1>3. LockOK BY IdleFields DEF Init, LockOK
  <1>4. LoginOK BY AccountAssumption DEF Init, LoginOK
  <1>5. ProbesOK
    <2>1. probes \in [shown: Accounts \cup {None}, refreshing: BOOLEAN, rerun: BOOLEAN]
      BY DEF Init
    <2> QED BY <2>1 DEF Init, ProbesOK
  <1>6. HistoryOK
    <2>1. events = 0 /\ loggedOut = FALSE /\ stray = FALSE BY DEF Init
    <2>2. events \in 0..MaxEvents BY <2>1, AccountAssumption
    <2>3. loggedOut \in BOOLEAN /\ stray \in BOOLEAN BY <2>1
    <2> QED BY <2>2, <2>3 DEF HistoryOK
  <1> QED BY <1>1, <1>2, <1>3, <1>4, <1>5, <1>6 DEF Typed

LEMMA CachedTyped ==
  ASSUME Typed, NEW c \in Callers, Cached(c)  PROVE Typed'
  <1> TokensOK /\ CallsOK /\ Len(issued) \in Nat /\ 0 <= Len(issued) BY LenIs DEF Typed
  <1>1. TokensOK' /\ LoginOK' /\ ProbesOK' /\ HistoryOK' /\ UNCHANGED <<issued, expired, refreshMu>>
    BY DEF Cached, tokenVars, loginVars, probeVars, historyVars, Typed, TokensOK, LoginOK,
           ProbesOK, HistoryOK
  <1>2. CallsOK' /\ LockOK'
    <2>1. call[c].at = "cache" BY DEF Cached
    <2>2. CASE driveInfo # None
      <3> DEFINE r == [Step(c, "have") EXCEPT !.info = driveInfo]
      <3>1. Step(c, "have") \in Call /\ Step(c, "have").at = "have" /\ Step(c, "have").token = 0
        BY StepFields DEF CallsOK
      <3>2. r \in Call BY <3>1 DEF TokensOK, Call
      <3>3. r.at = "have" /\ r.token = 0 BY <3>1 DEF Call
      <3>4. call' = [call EXCEPT ![c] = r] BY <2>2 DEF Cached, Becomes
      <3> HIDE DEF r
      <3> QED BY <1>1, <2>1, <3>2, <3>3, <3>4, CallMoves
    <2>3. CASE driveInfo = None
      <3> DEFINE r == Sent(c, credentials.token, FALSE)
      <3>1. credentials.token \in Token /\ credentials.token <= Len(issued)
        BY DEF TokensOK, Credentials
      <3>2. r \in Call /\ r.at \in {"unlinked", "sent"} /\ r.token = credentials.token
        BY <3>1, SentFields DEF CallsOK
      <3>3. call' = [call EXCEPT ![c] = r] BY <2>3 DEF Cached, Becomes
      <3> HIDE DEF r
      <3> QED BY <1>1, <2>1, <3>1, <3>2, <3>3, CallMoves
    <2> QED BY <2>2, <2>3
  <1> QED BY <1>1, <1>2 DEF Typed

LEMMA AnsweredTyped ==
  ASSUME Typed, NEW c \in Callers, Answered(c)  PROVE Typed'
  <1> TokensOK /\ CallsOK /\ Len(issued) \in Nat /\ 0 <= Len(issued) BY LenIs DEF Typed
  <1>1. /\ call[c].at = "sent" /\ call[c].token \in Token /\ call[c].token <= Len(issued)
        /\ Owner(call[c].token) \in Accounts \cup {None}
    BY CallFields, OwnerIs DEF Answered, CallsOK
  <1>2. TokensOK' BY <1>1 DEF Answered, TokensOK, tokenVars
  <1>3. LoginOK' /\ ProbesOK' /\ UNCHANGED <<issued, expired, refreshMu>>
    BY DEF Answered, tokenVars, loginVars, probeVars, Typed, LoginOK, ProbesOK
  <1>4. HistoryOK' BY AccountAssumption DEF Answered, Event, historyVars, Typed, HistoryOK
  <1>5. CallsOK' /\ LockOK'
    <2>1. CASE Becomes(c, [Step(c, "have") EXCEPT !.info = Owner(call[c].token)])
      <3> DEFINE r == [Step(c, "have") EXCEPT !.info = Owner(call[c].token)]
      <3>1. Step(c, "have") \in Call /\ Step(c, "have").at = "have" /\ Step(c, "have").token = 0
        BY StepFields DEF CallsOK
      <3>2. r \in Call BY <1>1, <3>1 DEF Call
      <3>3. r.at = "have" /\ r.token = 0 BY <3>1 DEF Call
      <3>4. call' = [call EXCEPT ![c] = r] BY <2>1 DEF Becomes
      <3> HIDE DEF r
      <3> QED BY <1>1, <1>3, <3>2, <3>3, <3>4, CallMoves
    <2>2. CASE call[c].token \in expired /\ call[c].again /\ Becomes(c, Step(c, "unlinked"))
      <3> DEFINE r == Step(c, "unlinked")
      <3>1. r \in Call /\ r.at = "unlinked" /\ r.token = 0 BY StepFields DEF CallsOK
      <3>2. call' = [call EXCEPT ![c] = r] BY <2>2 DEF Becomes
      <3> HIDE DEF r
      <3> QED BY <1>1, <1>3, <3>1, <3>2, CallMoves
    <2>3. CASE call[c].token \in expired /\ Becomes(c, [Step(c, "refresh") EXCEPT !.token = call[c].token])
      <3> DEFINE r == [Step(c, "refresh") EXCEPT !.token = call[c].token]
      <3>1. Step(c, "refresh") \in Call /\ Step(c, "refresh").at = "refresh"
        BY StepFields DEF CallsOK
      <3>2. r \in Call BY <1>1, <3>1 DEF Call
      <3>3. r.at = "refresh" /\ r.token = call[c].token BY <3>1 DEF Call
      <3>4. call' = [call EXCEPT ![c] = r] BY <2>3 DEF Becomes
      <3> HIDE DEF r
      <3> QED BY <1>1, <1>3, <2>3, <3>2, <3>3, <3>4, CallMoves
    <2>4. CASE Becomes(c, Step(c, "failed"))
      <3> DEFINE r == Step(c, "failed")
      <3>1. r \in Call /\ r.at = "failed" /\ r.token = 0 BY StepFields DEF CallsOK
      <3>2. call' = [call EXCEPT ![c] = r] BY <2>4 DEF Becomes
      <3> HIDE DEF r
      <3> QED BY <1>1, <1>3, <3>1, <3>2, CallMoves
    <2> QED BY <2>1, <2>2, <2>3, <2>4 DEF Answered
  <1> QED BY <1>2, <1>3, <1>4, <1>5 DEF Typed

LEMMA RefreshTyped ==
  ASSUME Typed, NEW c \in Callers, Refresh(c)  PROVE Typed'
  <1> TokensOK /\ CallsOK /\ LockOK /\ Len(issued) \in Nat /\ 0 <= Len(issued)
    BY LenIs DEF Typed
  <1>1. /\ call[c].at = "refresh" /\ refreshMu = None
        /\ credentials.token \in Token /\ credentials.token <= Len(issued)
        /\ credentials.user \in Accounts \cup {None} /\ call[c].token \in expired
    BY DEF Refresh, TokensOK, Credentials, CallsOK
  <1>2. TokensOK' /\ LoginOK' /\ ProbesOK' /\ HistoryOK' /\ UNCHANGED <<issued, expired>>
    BY DEF Refresh, tokenVars, loginVars, probeVars, historyVars, Typed, TokensOK, LoginOK,
           ProbesOK, HistoryOK
  <1>3. CallsOK' /\ LockOK'
    <2>1. CASE Becomes(c, Sent(c, credentials.token, TRUE)) /\ UNCHANGED refreshMu
      <3> DEFINE r == Sent(c, credentials.token, TRUE)
      <3>1. r \in Call /\ r.at \in {"unlinked", "sent"} /\ r.token = credentials.token
        BY <1>1, SentFields DEF CallsOK
      <3>2. call' = [call EXCEPT ![c] = r] BY <2>1 DEF Becomes
      <3> HIDE DEF r
      <3> QED BY <1>1, <1>2, <2>1, <3>1, <3>2, CallMoves
    <2>2. CASE Becomes(c, Step(c, "unlinked")) /\ UNCHANGED refreshMu
      <3>1. call' = [call EXCEPT ![c] = Step(c, "unlinked")] BY <2>2 DEF Becomes
      <3> QED BY <1>1, <1>2, <2>2, <3>1, StepMoves
    <2>3. CASE /\ ~SomebodyRefreshed(c) /\ credentials.token # 0 /\ refreshMu' = c
               /\ Becomes(c, [Step(c, "exchange") EXCEPT !.token = credentials.token,
                                                         !.info = credentials.user])
      <3> DEFINE q == [Step(c, "exchange") EXCEPT !.token = credentials.token]
                 r == [q EXCEPT !.info = credentials.user]
      <3>1. Step(c, "exchange") \in Call /\ Step(c, "exchange").at = "exchange"
        BY StepFields DEF CallsOK
      <3>2. q \in Call /\ q.at = "exchange" /\ q.token = credentials.token
        BY <1>1, <3>1 DEF Call
      <3>3. call' = [call EXCEPT ![c] = r] BY <2>3 DEF Becomes
      <3> HIDE DEF q
      <3>4. r \in Call /\ r.at = "exchange" /\ r.token = credentials.token
        BY <1>1, <3>2 DEF Call
      <3> HIDE DEF r
      <3>5. credentials.token \in expired BY <1>1, <2>3 DEF SomebodyRefreshed
      <3>6. /\ Len(issued') \in Nat /\ Len(issued) <= Len(issued') /\ expired \subseteq expired'
            /\ r.token <= Len(issued') /\ r.token \in expired'
        BY <1>1, <1>2, <3>4, <3>5
      <3>7. CallsOK' BY <3>3, <3>4, <3>6, CallsStep
      <3>8. \A d \in Callers : call'[d].at = "exchange" <=> d = c
        BY <1>1, <3>3, <3>4 DEF CallsOK, LockOK
      <3>9. c # None BY CallersAre
      <3> QED BY <2>3, <3>7, <3>8, <3>9 DEF LockOK
    <2> QED BY <2>1, <2>2, <2>3 DEF Refresh
  <1> QED BY <1>2, <1>3 DEF Typed

LEMMA ExchangedTyped ==
  ASSUME Typed, NEW c \in Callers, Exchanged(c)  PROVE Typed'
  <1> TokensOK /\ CallsOK /\ LockOK /\ Len(issued) \in Nat /\ 0 <= Len(issued)
    BY LenIs DEF Typed
  <1>1. /\ call[c].at = "exchange" /\ call[c].token \in Token /\ call[c].token <= Len(issued)
        /\ call[c].token \in expired /\ call[c].token # 0 /\ refreshMu' = None
    BY CallFields DEF Exchanged, CallsOK, TokensOK, Unlocked
  <1>2. \A d \in Callers : call[d].at = "exchange" <=> d = c BY <1>1 DEF LockOK
  <1>3. LoginOK' /\ ProbesOK' /\ expired' = expired
    BY DEF Exchanged, loginVars, probeVars, Typed, LoginOK, ProbesOK
  <1>4. HistoryOK'
    <2>1. events' = events \/ Event BY DEF Exchanged, Persist
    <2>2. UNCHANGED historyVars BY DEF Exchanged
    <2> QED BY <2>1, <2>2, HistoryStays
  \* Whatever the call becomes, the lock is given up.
  <1>5. ASSUME NEW r \in Call, call' = [call EXCEPT ![c] = r], r.at \in {"sent", "failed", "unlinked"}
        PROVE  LockOK'
    BY <1>1, <1>2, <1>5 DEF LockOK, CallsOK
  <1>6. CASE /\ call[c].info = Owner(call[c].token) /\ Len(issued) < MaxTokens
             /\ issued' = Append(issued, call[c].info)
             /\ credentials' = [credentials EXCEPT !.token = Len(issued')]
             /\ driveInfo' = None
             /\ \/ Persist(TRUE) /\ Becomes(c, Sent(c, Len(issued'), TRUE))
                \/ Persist(FALSE) /\ Becomes(c, Step(c, "failed"))
    <2>1. call[c].info \in Accounts BY <1>1, <1>6, OwnerIs
    <2>2. issued' \in Seq(Accounts) /\ Len(issued') = Len(issued) + 1
      BY <1>6, <2>1 DEF TokensOK
    <2>3. Len(issued') \in Token /\ Len(issued') # 0 /\ Len(issued') <= MaxTokens
      BY <1>6, <2>2, AccountAssumption DEF Token, MaxTokens
    <2>4. credentials' \in Credentials /\ credentials'.token = Len(issued')
      BY <1>6, <2>3 DEF TokensOK, Credentials
    <2>5. stored' \in {stored, credentials'} /\ unsaved' \in BOOLEAN BY <1>6 DEF Persist
    <2>6. stored.token \in Nat /\ stored.token <= Len(issued)
      BY AccountAssumption DEF TokensOK, Credentials, Token, MaxTokens
    <2>7. stored' \in Credentials /\ stored'.token <= Len(issued')
      BY <2>2, <2>4, <2>5, <2>6 DEF TokensOK
    <2>8. expired' \subseteq 1..Len(issued') BY <1>3, <2>2 DEF TokensOK
    <2>9. TokensOK' BY <1>6, <2>2, <2>3, <2>4, <2>5, <2>7, <2>8 DEF TokensOK
    <2>10. CallsOK' /\ LockOK'
      <3>1. CASE Becomes(c, Sent(c, Len(issued'), TRUE))
        <4> DEFINE r == Sent(c, Len(issued'), TRUE)
        <4>1. r \in Call /\ r.at = "sent" /\ r.token = Len(issued')
          BY <2>3, SentFields DEF CallsOK
        <4>2. call' = [call EXCEPT ![c] = r] BY <3>1 DEF Becomes
        <4> HIDE DEF r
        <4>3. /\ Len(issued') \in Nat /\ Len(issued) <= Len(issued') /\ expired \subseteq expired'
              /\ r.token <= Len(issued')
          BY <1>3, <2>2, <4>1
        <4> QED BY <1>5, <4>1, <4>2, <4>3, CallsStep
      <3>2. CASE Becomes(c, Step(c, "failed"))
        <4> DEFINE r == Step(c, "failed")
        <4>1. r \in Call /\ r.at = "failed" /\ r.token = 0 BY StepFields DEF CallsOK
        <4>2. call' = [call EXCEPT ![c] = r] BY <3>2 DEF Becomes
        <4> HIDE DEF r
        <4>3. /\ Len(issued') \in Nat /\ Len(issued) <= Len(issued') /\ expired \subseteq expired'
              /\ r.token <= Len(issued')
          BY <1>3, <2>2, <4>1
        <4> QED BY <1>5, <4>1, <4>2, <4>3, CallsStep
      <3> QED BY <1>6, <3>1, <3>2
    <2> QED BY <1>3, <1>4, <2>9, <2>10 DEF Typed
  <1>7. CASE Becomes(c, Step(c, "failed")) /\ UNCHANGED <<credentials, stored, unsaved, issued, driveInfo>>
    <2> DEFINE r == Step(c, "failed")
    <2>1. r \in Call /\ r.at = "failed" /\ r.token = 0 BY StepFields DEF CallsOK
    <2>2. call' = [call EXCEPT ![c] = r] BY <1>7 DEF Becomes
    <2> HIDE DEF r
    <2>3. /\ Len(issued') \in Nat /\ Len(issued) <= Len(issued') /\ expired \subseteq expired'
          /\ r.token <= Len(issued')
      BY <1>3, <1>7, <2>1
    <2>4. CallsOK' /\ LockOK' BY <1>5, <2>1, <2>2, <2>3, CallsStep
    <2>5. TokensOK' BY <1>3, <1>7 DEF TokensOK
    <2> QED BY <1>3, <1>4, <2>4, <2>5 DEF Typed
  <1> QED BY <1>6, <1>7 DEF Exchanged

LEMMA IdentifyTyped ==
  ASSUME Typed, NEW c \in Callers, NEW next \in Call, next.token = 0,
         next.at \notin {"refresh", "exchange"}, Identify(c, next)
  PROVE  Typed'
  <1> TokensOK /\ CallsOK /\ Len(issued) \in Nat /\ 0 <= Len(issued) BY LenIs DEF Typed
  <1>1. call[c].at = "have" /\ call[c].info \in Accounts \cup {None}
    BY CallFields DEF Identify, CallsOK
  <1>2. CallsOK' /\ LockOK' BY <1>1, CallMoves DEF Identify
  <1>3. LoginOK' /\ ProbesOK' BY DEF Identify, loginVars, probeVars, Typed, LoginOK, ProbesOK
  <1>4. events' = events \/ Event BY DEF Identify, Persist
  <1>5. HistoryOK' BY <1>4, HistoryStays DEF Identify
  <1>6. TokensOK'
    <2>1. credentials' \in Credentials /\ credentials'.token = credentials.token
      BY <1>1 DEF Identify, TokensOK, Credentials
    <2>2. stored' \in {stored, credentials'} /\ unsaved' \in BOOLEAN
      BY DEF Identify, Persist, TokensOK
    <2> QED BY <2>1, <2>2 DEF Identify, TokensOK
  <1> QED BY <1>2, <1>3, <1>5, <1>6 DEF Typed

LEMMA ProbeIdentifiesTyped ==
  ASSUME Typed, NEW p \in Probers, ProbeIdentifies(p)  PROVE Typed'
  <1> DEFINE q == [Idle EXCEPT !.at = "cache"]
             r == [q EXCEPT !.who = call[p].info]
  <1>1. p \in Callers /\ call \in [Callers -> Call] BY CallersAre DEF Typed, CallsOK
  <1>2. call[p].info \in Accounts \cup {None} BY <1>1, CallFields
  <1>3. Identify(p, r) BY DEF ProbeIdentifies
  <1>4. q \in Call /\ q.at = "cache" /\ q.token = 0 BY IdleAtFields
  <1> HIDE DEF q
  <1>5. r \in Call /\ r.at = "cache" /\ r.token = 0 BY <1>2, <1>4 DEF Call
  <1> HIDE DEF r
  <1> QED BY <1>1, <1>3, <1>5, IdentifyTyped

LEMMA LoginIdentifiesTyped == ASSUME Typed, LoginIdentifies  PROVE Typed'
  <1> DEFINE q == [Idle EXCEPT !.at = "named"]
             r == [q EXCEPT !.info = call["login"].info]
  <1>1. "login" \in Callers /\ call \in [Callers -> Call] BY CallersAre DEF Typed, CallsOK
  <1>2. call["login"].info \in Accounts \cup {None} BY <1>1, CallFields
  <1>3. Identify("login", r) BY DEF LoginIdentifies
  <1>4. q \in Call /\ q.at = "named" /\ q.token = 0 BY IdleAtFields
  <1> HIDE DEF q
  <1>5. r \in Call /\ r.at = "named" /\ r.token = 0 BY <1>2, <1>4 DEF Call
  <1> HIDE DEF r
  <1> QED BY <1>1, <1>3, <1>5, IdentifyTyped

LEMMA RequestProbeTyped ==
  ASSUME Typed, NEW c \in Callers, RequestProbe(c)  PROVE Typed'
  <1> TokensOK /\ CallsOK /\ Len(issued) \in Nat /\ 0 <= Len(issued) BY LenIs DEF Typed
  <1> DEFINE calls == [call EXCEPT ![c] = Idle]
  <1>1. TokensOK' /\ LoginOK' /\ HistoryOK' /\ UNCHANGED <<issued, expired, refreshMu>>
    BY DEF RequestProbe, tokenVars, loginVars, historyVars, Typed, TokensOK, LoginOK, HistoryOK
  <1>2. ProbesOK' BY DEF RequestProbe, Typed, ProbesOK
  <1>3. call[c].at = "request" BY DEF RequestProbe
  <1>4. calls \in [Callers -> Call] BY IdleFields DEF CallsOK
  <1>5. calls[c] = Idle /\ \A d \in Callers \ {c} : calls[d] = call[d] BY DEF CallsOK
  <1>6. call' = calls \/ Launch(calls) BY DEF RequestProbe
  <1> HIDE DEF calls
  <1>7. CASE call' = calls
    <2>1. call' \in [Callers -> Call] BY <1>4, <1>7
    <2>2. \A d \in Callers :
            \/ call'[d] = call[d]
            \/ /\ call[d].at # "exchange" /\ call'[d].at \notin {"refresh", "exchange"}
               /\ call'[d].token <= Len(issued)
      BY <1>3, <1>5, <1>7, IdleFields
    <2> QED BY <1>1, <1>2, <2>1, <2>2, CallsPointwise DEF Typed
  <1>8. CASE Launch(calls)
    <2>1. PICK p \in Probers :
            /\ calls[p].at = "idle" /\ call'[p].at = "cache"
            /\ call'[p].token = calls[p].token /\ call'[p].who = calls[p].who
            /\ \A d \in Callers \ {p} : call'[d] = calls[d]
      BY <1>4, <1>8, LaunchIs
    <2>2. call' \in [Callers -> Call] BY <1>4, <1>8, LaunchIs
    <2>3. ASSUME NEW d \in Callers
          PROVE  \/ call'[d] = call[d]
                 \/ /\ call[d].at # "exchange" /\ call'[d].at \notin {"refresh", "exchange"}
                    /\ call'[d].token <= Len(issued)
      <3>1. calls[d].token <= Len(issued) BY <1>5, IdleFields DEF CallsOK
      <3>2. CASE d = p BY <1>3, <1>5, <2>1, <3>1, <3>2
      <3>3. CASE d # p /\ d # c BY <1>5, <2>1, <3>3
      <3>4. CASE d # p /\ d = c BY <1>3, <1>5, <2>1, <3>1, <3>4, IdleFields
      <3> QED BY <3>2, <3>3, <3>4
    <2> QED BY <1>1, <1>2, <2>2, <2>3, CallsPointwise DEF Typed
  <1> QED BY <1>6, <1>7, <1>8

LEMMA PollTyped == ASSUME Typed, Poll  PROVE Typed'
  <1> TokensOK /\ CallsOK BY DEF Typed
  <1>1. TokensOK' /\ LoginOK' /\ HistoryOK' /\ UNCHANGED <<issued, expired, refreshMu>>
    BY DEF Poll, tokenVars, loginVars, historyVars, Typed, TokensOK, LoginOK, HistoryOK
  <1>2. ProbesOK' BY DEF Poll, Typed, ProbesOK
  <1>3. call \in [Callers -> Call] /\ Launch(call) BY DEF Poll, CallsOK
  <1>4. PICK p \in Probers :
          /\ call[p].at = "idle" /\ call'[p].at = "cache"
          /\ call'[p].token = call[p].token /\ call'[p].who = call[p].who
          /\ \A d \in Callers \ {p} : call'[d] = call[d]
    BY <1>3, LaunchIs
  <1>5. call' \in [Callers -> Call] BY <1>3, LaunchIs
  <1>6. \A d \in Callers :
          \/ call'[d] = call[d]
          \/ /\ call[d].at # "exchange" /\ call'[d].at \notin {"refresh", "exchange"}
             /\ call'[d].token <= Len(issued)
    BY <1>4 DEF CallsOK
  <1> QED BY <1>1, <1>2, <1>5, <1>6, CallsPointwise DEF Typed

LEMMA InvalidatedTyped == ASSUME Typed, Invalidated  PROVE ProbesOK'
  BY DEF Typed, ProbesOK, Invalidated

LEMMA InvalidateTyped ==
  ASSUME Typed, NEW c \in Callers,
         NEW from \in {"idle", "unlinked", "invalidate"}, NEW to \in {"request"},
         Invalidate(c, from, to), events' = events \/ Event, UNCHANGED historyVars
  PROVE  Typed'
  <1>1. TokensOK' /\ LoginOK' /\ UNCHANGED <<issued, expired, refreshMu>>
    BY DEF Invalidate, tokenVars, loginVars, Typed, TokensOK, LoginOK
  <1>2. ProbesOK' BY InvalidatedTyped DEF Invalidate
  <1>3. HistoryOK' BY HistoryStays
  <1>4. call[c].at = from /\ call' = [call EXCEPT ![c] = Step(c, to)]
    BY DEF Invalidate, Goes, Becomes
  <1>5. CallsOK' /\ LockOK' BY <1>1, <1>4, StepMoves
  <1> QED BY <1>1, <1>2, <1>3, <1>5 DEF Typed

LEMMA PublishTyped == ASSUME Typed, NEW p \in Probers, Publish(p)  PROVE Typed'
  <1> DEFINE at == IF p \in outdated \/ probes.rerun THEN "request" ELSE "idle"
  <1>1. TokensOK' /\ LoginOK' /\ HistoryOK' /\ UNCHANGED <<issued, expired, refreshMu>>
    BY DEF Publish, tokenVars, loginVars, historyVars, Typed, TokensOK, LoginOK, HistoryOK
  <1>2. p \in Callers /\ call \in [Callers -> Call] BY CallersAre DEF Typed, CallsOK
  <1>3. call[p].who \in Accounts \cup {None} BY <1>2, CallFields
  <1>4. ProbesOK' BY <1>3 DEF Publish, RerunAfter, Typed, ProbesOK
  <1>5. call[p].at # "exchange" /\ call' = [call EXCEPT ![p] = [Idle EXCEPT !.at = at]]
    BY DEF Publish
  <1>6. at \in {"request", "idle"} OBVIOUS
  <1> HIDE DEF at
  <1>7. CallsOK' /\ LockOK' BY <1>1, <1>2, <1>5, <1>6, IdleMoves
  <1> QED BY <1>1, <1>4, <1>7 DEF Typed

LEMMA WorkBeginsTyped == ASSUME Typed, WorkBegins  PROVE Typed'
  <1>1. TokensOK' /\ LoginOK' /\ ProbesOK' /\ UNCHANGED <<issued, expired, refreshMu>>
    BY DEF WorkBegins, tokenVars, loginVars, probeVars, Typed, TokensOK, LoginOK, ProbesOK
  <1>2. HistoryOK' BY HistoryStays DEF WorkBegins
  <1>3. call["work"].at = "idle" /\ call' = [call EXCEPT !["work"] = Step("work", "cache")]
    BY DEF WorkBegins, Goes, Becomes
  <1>4. CallsOK' /\ LockOK' BY <1>1, <1>3, CallersAre, StepMoves
  <1> QED BY <1>1, <1>2, <1>4 DEF Typed

LEMMA WorkEndsTyped == ASSUME Typed, WorkEnds  PROVE Typed'
  <1>1. /\ TokensOK' /\ LoginOK' /\ ProbesOK' /\ HistoryOK'
        /\ UNCHANGED <<issued, expired, refreshMu>>
    BY DEF WorkEnds, tokenVars, loginVars, probeVars, historyVars, Typed, TokensOK, LoginOK,
           ProbesOK, HistoryOK
  <1>2. CallsOK' /\ LockOK' BY <1>1, CallersAre, IdleStays DEF WorkEnds
  <1> QED BY <1>1, <1>2 DEF Typed

----------------------------------------------------------------------------
LEMMA AbortedIs ==
  ASSUME LoginOK, NEW s
  PROVE  Aborted(s) \in [Session -> {"new", "waiting", "finishing", "done", "failed"}]
  BY DEF LoginOK, Aborted

LEMMA StartLoginTyped == ASSUME Typed, StartLogin  PROVE Typed'
  <1>1. /\ TokensOK' /\ ProbesOK' /\ UNCHANGED <<call, issued, expired, refreshMu>>
    BY DEF StartLogin, tokenVars, probeVars, Typed, TokensOK, ProbesOK
  <1>2. HistoryOK' BY HistoryStays DEF StartLogin
  <1>3. Aborted(login) \in [Session -> {"new", "waiting", "finishing", "done", "failed"}]
    BY AbortedIs DEF Typed
  <1>4. login' \in 0..MaxLogins BY AccountAssumption DEF StartLogin, Session
  <1>5. session' \in [Session -> {"new", "waiting", "finishing", "done", "failed"}]
    BY <1>3 DEF StartLogin
  <1>6. LoginOK' BY <1>4, <1>5 DEF StartLogin, Typed, LoginOK
  <1> QED BY <1>1, <1>2, <1>6, CallStays DEF Typed

LEMMA CancelLoginTyped == ASSUME Typed, CancelLogin  PROVE Typed'
  <1>1. /\ TokensOK' /\ ProbesOK' /\ HistoryOK' /\ UNCHANGED <<call, issued, expired, refreshMu>>
    BY DEF CancelLogin, tokenVars, probeVars, historyVars, Typed, TokensOK, ProbesOK, HistoryOK
  <1>2. LoginOK' BY AbortedIs, AccountAssumption DEF CancelLogin, Typed, LoginOK
  <1> QED BY <1>1, <1>2, CallStays DEF Typed

LEMMA LinkExpiresTyped == ASSUME Typed, NEW s \in Session, LinkExpires(s)  PROVE Typed'
  <1>1. /\ TokensOK' /\ ProbesOK' /\ HistoryOK' /\ UNCHANGED <<call, issued, expired, refreshMu>>
    BY DEF LinkExpires, tokenVars, probeVars, historyVars, Typed, TokensOK, ProbesOK, HistoryOK
  <1>2. LoginOK' BY AbortedIs DEF LinkExpires, Typed, LoginOK
  <1> QED BY <1>1, <1>2, CallStays DEF Typed

LEMMA BeginConfirmationTyped == ASSUME Typed, BeginConfirmation  PROVE Typed'
  <1>1. /\ TokensOK' /\ ProbesOK' /\ HistoryOK' /\ UNCHANGED <<issued, expired, refreshMu>>
    BY DEF BeginConfirmation, tokenVars, probeVars, historyVars, Typed, TokensOK, ProbesOK,
           HistoryOK
  <1>2. LoginOK' BY DEF BeginConfirmation, Typed, LoginOK
  <1>3. call["login"].at = "idle" /\ call' = [call EXCEPT !["login"] = Step("login", "tokens")]
    BY DEF BeginConfirmation, Goes, Becomes
  <1>4. CallsOK' /\ LockOK' BY <1>1, <1>3, CallersAre, StepMoves
  <1> QED BY <1>1, <1>2, <1>4 DEF Typed

LEMMA TokensArriveTyped == ASSUME Typed, TokensArrive  PROVE Typed'
  <1> TokensOK /\ CallsOK /\ LockOK /\ Len(issued) \in Nat /\ 0 <= Len(issued)
    BY LenIs DEF Typed
  <1>1. ProbesOK' /\ UNCHANGED <<expired, refreshMu>>
    BY DEF TokensArrive, probeVars, Typed, ProbesOK
  <1>2. events' = events \/ Event BY DEF TokensArrive
  <1>3. HistoryOK' BY <1>2, HistoryStays DEF TokensArrive
  <1>4. LoginOK' BY AbortedIs DEF TokensArrive, Typed, LoginOK
  <1>5. "login" \in Callers /\ call["login"].at = "tokens" BY CallersAre DEF TokensArrive
  <1>6. CASE /\ Len(issued) < MaxTokens /\ \E a \in Accounts : issued' = Append(issued, a)
             /\ call' = [call EXCEPT !["login"] = [Idle EXCEPT !.at = "set", !.token = Len(issued')]]
    <2>1. issued' \in Seq(Accounts) /\ Len(issued') = Len(issued) + 1
      BY <1>6 DEF TokensOK
    <2>2. Len(issued') \in Token /\ Len(issued') <= MaxTokens /\ MaxTokens \in Nat
      BY <1>6, <2>1, AccountAssumption DEF Token, MaxTokens
    <2>3. credentials.token \in Nat /\ stored.token \in Nat
      BY AccountAssumption DEF TokensOK, Credentials, Token, MaxTokens
    <2>4. expired' \subseteq 1..Len(issued') BY <1>1, <2>1 DEF TokensOK
    <2>5. TokensOK' BY <2>1, <2>2, <2>3, <2>4 DEF TokensArrive, TokensOK
    <2> DEFINE q == [Idle EXCEPT !.at = "set"]
               r == [q EXCEPT !.token = Len(issued')]
    <2>6. q \in Call /\ q.at = "set" /\ q.token = 0 BY IdleAtFields
    <2>7. call' = [call EXCEPT !["login"] = r] BY <1>6
    <2> HIDE DEF q
    <2>8. r \in Call /\ r.at = "set" /\ r.token = Len(issued') BY <2>2, <2>6 DEF Call
    <2> HIDE DEF r
    <2>9. /\ Len(issued') \in Nat /\ Len(issued) <= Len(issued') /\ expired \subseteq expired'
          /\ r.token <= Len(issued')
      BY <1>1, <2>1, <2>8
    <2>10. CallsOK' BY <1>5, <2>7, <2>8, <2>9, CallsStep
    <2>11. LockOK' BY <1>1, <1>5, <2>7, <2>8, LockStep
    <2> QED BY <1>1, <1>3, <1>4, <2>5, <2>10, <2>11 DEF Typed
  <1>7. CASE call' = [call EXCEPT !["login"] = Idle] /\ UNCHANGED issued
    <2>1. TokensOK' BY <1>7 DEF TokensArrive, TokensOK
    <2>2. CallsOK' /\ LockOK' BY <1>1, <1>5, <1>7, IdleStays
    <2> QED BY <1>1, <1>3, <1>4, <2>1, <2>2 DEF Typed
  <1> QED BY <1>6, <1>7 DEF TokensArrive

LEMMA SetTokensTyped == ASSUME Typed, SetTokens  PROVE Typed'
  <1> TokensOK /\ CallsOK BY DEF Typed
  <1>1. /\ LoginOK' /\ ProbesOK' /\ HistoryOK' /\ UNCHANGED <<issued, expired, refreshMu>>
    BY DEF SetTokens, loginVars, probeVars, Typed, LoginOK, ProbesOK, HistoryOK
  <1>2. "login" \in Callers /\ call["login"].at = "set" BY CallersAre DEF SetTokens
  <1>3. call["login"].token \in Token /\ call["login"].token <= Len(issued)
    BY <1>2, CallFields DEF CallsOK
  <1>4. credentials' \in Credentials /\ credentials'.token <= Len(issued)
    BY <1>3 DEF SetTokens, Credentials
  <1>5. TokensOK' BY <1>4 DEF SetTokens, TokensOK
  <1>6. CallsOK' /\ LockOK' BY <1>1, <1>2, IdleMoves DEF SetTokens
  <1> QED BY <1>1, <1>5, <1>6 DEF Typed

LEMMA NameAccountTyped == ASSUME Typed, NameAccount  PROVE Typed'
  <1> TokensOK /\ CallsOK BY DEF Typed
  <1>1. "login" \in Callers /\ call["login"].at = "named" BY CallersAre DEF NameAccount
  <1>2. call["login"].info \in Accounts \cup {None} BY <1>1, CallFields DEF CallsOK
  <1>3. ProbesOK' /\ UNCHANGED <<issued, expired, refreshMu>>
    BY DEF NameAccount, probeVars, Typed, ProbesOK
  <1>4. credentials' \in Credentials /\ credentials'.token = credentials.token
    BY <1>2 DEF NameAccount, TokensOK, Credentials
  <1>5. PICK ok \in BOOLEAN :
          /\ Persist(ok)
          /\ session' = IF ok THEN [session EXCEPT ![confirming] = "done"] ELSE Aborted(confirming)
          /\ call' = [call EXCEPT !["login"] = [Idle EXCEPT !.at = IF ok THEN "invalidate" ELSE "idle"]]
    BY DEF NameAccount
  <1>6. LoginOK' BY <1>5, AbortedIs DEF NameAccount, Typed, LoginOK
  <1>7. events' = events \/ Event BY <1>5 DEF Persist
  <1>8. HistoryOK' BY <1>7, HistoryStays DEF NameAccount
  <1>9. stored' \in {stored, credentials'} /\ unsaved' \in BOOLEAN BY <1>5 DEF Persist
  <1>10. TokensOK' BY <1>4, <1>9 DEF NameAccount, TokensOK
  <1> DEFINE at == IF ok THEN "invalidate" ELSE "idle"
  <1>11. at \in {"invalidate", "idle"} OBVIOUS
  <1>12. call' = [call EXCEPT !["login"] = [Idle EXCEPT !.at = at]] BY <1>5
  <1> HIDE DEF at
  <1>13. CallsOK' /\ LockOK' BY <1>1, <1>3, <1>11, <1>12, IdleMoves
  <1> QED BY <1>3, <1>6, <1>8, <1>10, <1>13 DEF Typed

LEMMA NoCredentialsFields == NoCredentials \in Credentials /\ NoCredentials.token = 0
  BY AccountAssumption DEF NoCredentials, Credentials, Token, MaxTokens

LEMMA LoginFailsTyped == ASSUME Typed, LoginFails  PROVE Typed'
  <1> TokensOK /\ CallsOK /\ 0 <= Len(issued) BY LenIs DEF Typed
  <1>1. /\ ProbesOK' /\ HistoryOK' /\ UNCHANGED <<issued, expired, refreshMu>>
    BY DEF LoginFails, probeVars, historyVars, Typed, ProbesOK, HistoryOK
  <1>2. LoginOK' BY AbortedIs DEF LoginFails, Typed, LoginOK
  <1>3. TokensOK' BY NoCredentialsFields DEF LoginFails, TokensOK
  <1>4. CallsOK' /\ LockOK' BY <1>1, CallersAre, IdleStays DEF LoginFails
  <1> QED BY <1>1, <1>2, <1>3, <1>4 DEF Typed

LEMMA LogoutBeginsTyped == ASSUME Typed, LogoutBegins  PROVE Typed'
  <1>1. TokensOK' /\ UNCHANGED <<issued, expired, refreshMu>>
    BY DEF LogoutBegins, tokenVars, Typed, TokensOK
  <1>2. ProbesOK' /\ HistoryOK' BY InvalidatedTyped, HistoryStays DEF LogoutBegins
  <1>3. LoginOK' BY AbortedIs, AccountAssumption DEF LogoutBegins, Typed, LoginOK
  <1>4. call["logout"].at = "idle" /\ call' = [call EXCEPT !["logout"] = Step("logout", "clear")]
    BY DEF LogoutBegins, Goes, Becomes
  <1>5. CallsOK' /\ LockOK' BY <1>1, <1>4, CallersAre, StepMoves
  <1> QED BY <1>1, <1>2, <1>3, <1>5 DEF Typed

LEMMA ClearCredentialsTyped == ASSUME Typed, ClearCredentials  PROVE Typed'
  <1> TokensOK /\ 0 <= Len(issued) BY LenIs DEF Typed
  <1>1. LoginOK' /\ ProbesOK' /\ UNCHANGED <<issued, expired, refreshMu>>
    BY DEF ClearCredentials, loginVars, probeVars, Typed, LoginOK, ProbesOK
  <1>2. PICK ok \in BOOLEAN : Persist(ok) BY DEF ClearCredentials
  <1>3. stored' \in {stored, credentials'} /\ unsaved' \in BOOLEAN BY <1>2 DEF Persist
  <1>4. TokensOK' BY <1>3, NoCredentialsFields DEF ClearCredentials, TokensOK
  <1>5. events' = events \/ Event BY <1>2 DEF Persist
  <1>6. events' \in 0..MaxEvents BY <1>5, AccountAssumption DEF Event, Typed, HistoryOK
  <1>7. HistoryOK' BY <1>6 DEF ClearCredentials, HistoryOK
  <1>8. call["logout"].at = "clear"
        /\ call' = [call EXCEPT !["logout"] = Step("logout", "invalidate")]
    BY DEF ClearCredentials, Goes, Becomes
  <1>9. CallsOK' /\ LockOK' BY <1>1, <1>8, CallersAre, StepMoves
  <1> QED BY <1>1, <1>4, <1>7, <1>9 DEF Typed

----------------------------------------------------------------------------
LEMMA ExpireTyped == ASSUME Typed, Expire  PROVE Typed'
  <1>1. /\ LoginOK' /\ ProbesOK' /\ UNCHANGED <<call, issued, refreshMu>>
    BY DEF Expire, loginVars, probeVars, Typed, LoginOK, ProbesOK
  <1>2. HistoryOK' BY HistoryStays DEF Expire
  <1>3. expired' \subseteq 1..Len(issued) /\ expired \subseteq expired'
    BY DEF Expire, Typed, TokensOK
  <1>4. TokensOK' BY <1>3 DEF Expire, Typed, TokensOK
  <1>5. CallsOK' /\ LockOK' BY <1>1, <1>3 DEF Typed, CallsOK, LockOK
  <1> QED BY <1>1, <1>2, <1>4, <1>5 DEF Typed

LEMMA CacheExpiresTyped == ASSUME Typed, CacheExpires  PROVE Typed'
  <1>1. /\ TokensOK' /\ LoginOK' /\ ProbesOK' /\ HistoryOK'
        /\ UNCHANGED <<call, issued, expired, refreshMu>>
    BY DEF CacheExpires, tokenVars, loginVars, probeVars, historyVars, Typed, TokensOK, LoginOK,
           ProbesOK, HistoryOK
  <1> QED BY <1>1, CallStays DEF Typed

\* All requests are gone but the first probe's.
LEMMA RestartCalls ==
  ASSUME Restart
  PROVE  /\ call' \in [Callers -> Call]
         /\ \E p \in Probers :
              /\ call'[p].at = "cache" /\ call'[p].token = 0 /\ call'[p].who = None
              /\ \A d \in Callers \ {p} : call'[d] = Idle
  <1> DEFINE p == CHOOSE q \in Probers : TRUE
             calls == [c \in Callers |-> Idle]
             r == [Idle EXCEPT !.at = "cache"]
  <1>1. p \in Probers BY AccountAssumption
  <1>2. calls \in [Callers -> Call] /\ \A c \in Callers : calls[c] = Idle BY IdleFields
  <1>3. call' = [calls EXCEPT ![p].at = "cache"] BY DEF Restart
  <1> HIDE DEF p, calls
  <1>4. p \in Callers BY <1>1, CallersAre
  <1>5. call' = [calls EXCEPT ![p] = r] BY <1>2, <1>3, <1>4
  <1>6. r \in Call /\ r.at = "cache" /\ r.token = 0 /\ r.who = None BY IdleAtFields
  <1> HIDE DEF r
  <1> QED BY <1>1, <1>2, <1>4, <1>5, <1>6

LEMMA RestartTyped == ASSUME Typed, Restart  PROVE Typed'
  <1> TokensOK /\ Len(issued) \in Nat /\ 0 <= Len(issued) BY LenIs DEF Typed
  <1>1. PICK p \in Probers :
          /\ call'[p].at = "cache" /\ call'[p].token = 0 /\ call'[p].who = None
          /\ \A d \in Callers \ {p} : call'[d] = Idle
    BY RestartCalls
  <1>2. call' \in [Callers -> Call] BY RestartCalls
  <1>3. UNCHANGED issued BY DEF Restart
  <1>4. \A d \in Callers : call'[d].token = 0 /\ call'[d].at \in {"idle", "cache"}
    BY <1>1, IdleFields
  <1>5. CallsOK' BY <1>2, <1>3, <1>4 DEF CallsOK
  <1>6. LockOK' BY <1>4 DEF Restart, LockOK
  <1>7. credentials' \in {NoCredentials, stored} BY DEF Restart
  <1>8. TokensOK' BY <1>7, NoCredentialsFields DEF Restart, TokensOK
  <1>9. LoginOK' BY AccountAssumption DEF Restart, Typed, LoginOK
  <1>10. ProbesOK' BY DEF Restart, ProbesOK
  <1>11. events' \in 0..MaxEvents BY AccountAssumption DEF Restart, Event, Typed, HistoryOK
  <1>12. HistoryOK' BY <1>11 DEF Restart, Typed, HistoryOK
  <1> QED BY <1>5, <1>6, <1>8, <1>9, <1>10, <1>12 DEF Typed

\* A request's steps, for the callers that make them.
LEMMA RequestTyped == ASSUME Typed, NEW c \in Callers, Request(c)  PROVE Typed'
  BY CachedTyped, AnsweredTyped, RefreshTyped, ExchangedTyped DEF Request

LEMMA InvalidateIsTyped ==
  ASSUME Typed, NEW c \in Callers,
         NEW from \in {"idle", "unlinked", "invalidate"},
         Invalidate(c, from, "request"), events' = events \/ Event, UNCHANGED historyVars
  PROVE  Typed'
  <1>1. "request" \in {"request"} OBVIOUS
  <1> QED BY <1>1, InvalidateTyped

LEMMA NextTyped == ASSUME Typed, [Next]_vars  PROVE Typed'
  <1> USE CallersAre
  <1>1. ASSUME NEW p \in Probers, Probe(p)  PROVE Typed'
    BY <1>1, RequestTyped, ProbeIdentifiesTyped, PublishTyped, RequestProbeTyped DEF Probe
  <1>2. CASE WorkBegins BY <1>2, WorkBeginsTyped
  <1>3. CASE Work
    <2>1. CASE Invalidate("work", "unlinked", "request") /\ UNCHANGED <<events, historyVars>>
      BY <2>1, InvalidateIsTyped
    <2> QED BY <1>3, <2>1, RequestTyped, WorkEndsTyped, RequestProbeTyped DEF Work
  <1>4. CASE ConfirmLogin
    <2>1. CASE Invalidate("login", "invalidate", "request") /\ UNCHANGED <<events, historyVars>>
      BY <2>1, InvalidateIsTyped
    <2> QED BY <1>4, <2>1, TokensArriveTyped, SetTokensTyped, RequestTyped, LoginIdentifiesTyped,
               NameAccountTyped, LoginFailsTyped, RequestProbeTyped DEF ConfirmLogin
  <1>5. CASE Logout
    <2>1. CASE Invalidate("logout", "invalidate", "request") /\ UNCHANGED <<events, historyVars>>
      BY <2>1, InvalidateIsTyped
    <2> QED BY <1>5, <2>1, LogoutBeginsTyped, ClearCredentialsTyped, RequestProbeTyped DEF Logout
  <1>6. CASE RefreshProbe
    <2>1. CASE Event /\ Invalidate("page", "idle", "request") /\ UNCHANGED historyVars
      BY <2>1, InvalidateIsTyped
    <2> QED BY <1>6, <2>1, RequestProbeTyped DEF RefreshProbe
  <1>7. CASE Poll \/ StartLogin \/ CancelLogin \/ BeginConfirmation
    BY <1>7, PollTyped, StartLoginTyped, CancelLoginTyped, BeginConfirmationTyped
  <1>8. ASSUME NEW s \in Session, LinkExpires(s)  PROVE Typed' BY <1>8, LinkExpiresTyped
  <1>9. CASE Expire \/ CacheExpires \/ Restart
    BY <1>9, ExpireTyped, CacheExpiresTyped, RestartTyped
  <1>10. CASE UNCHANGED vars
    <2>1. /\ TokensOK' /\ LoginOK' /\ ProbesOK' /\ HistoryOK'
          /\ UNCHANGED <<call, issued, expired, refreshMu>>
      BY <1>10 DEF vars, Typed, TokensOK, LoginOK, ProbesOK, HistoryOK
    <2> QED BY <2>1, CallStays DEF Typed
  <1> QED BY <1>1, <1>2, <1>3, <1>4, <1>5, <1>6, <1>7, <1>8, <1>9, <1>10 DEF Next

\* Whatever requests, logins, logouts and restarts overlap, the account's state
\* has its types, and refreshMu is held by the one call at an exchange
\* (refreshAccessToken).
THEOREM TypeCorrect == Spec => []TypeOK
  <1>1. Spec => []Typed BY InitTyped, NextTyped, PTL DEF Spec
  <1> QED BY <1>1, TypedImplies, PTL

\* A token is exchanged only when the service refuses it, for every interleaving
\* of requests, refreshes and logins (requestJSON, refreshAccessToken).
THEOREM RefreshesOnlyExpired == Spec => []RefreshOnlyExpired
  <1>1. Spec => []Typed BY InitTyped, NextTyped, PTL DEF Spec
  <1>2. Typed => RefreshOnlyExpired BY DEF Typed, CallsOK, RefreshOnlyExpired
  <1> QED BY <1>1, <1>2, PTL

----------------------------------------------------------------------------
(* A logout holds.  LogoutHolds is not inductive: a call that has an account *)
(* or a token in hand would undo it.                                         *)
ProbersFresh == \A p \in Probers : call[p].at \in {"idle", "request"} => call[p].who = None

\* Nobody is about to put a token back.
Cleared == loggedOut => credentials.token = 0 /\ \A c \in Callers : call[c].at # "exchange"

\* Nor to cache an answer.
Quiet ==
  loggedOut /\ ~stray => driveInfo = None /\ \A c \in Callers : call[c].at # "sent"

Gone == loggedOut /\ ~stray /\ call["logout"].at \in {"idle", "request"}
\* Nor to show an account, but for probes whose results will be discarded.
Overtaken ==
  Gone => /\ probes.shown = None
          /\ \A p \in Probers \ outdated : call[p].who = None /\ call[p].at # "have"

LogoutInv == ProbersFresh /\ Cleared /\ Quiet /\ Overtaken

LEMMA LogoutImplies == LogoutInv => LogoutHolds
  BY DEF LogoutInv, Cleared, Overtaken, Gone, LogoutHolds, LoggedOutIsShown

\* What a caller's next step has to be for LogoutInv to survive it.
Harmless(d, r) ==
  /\ loggedOut => r.at # "exchange"
  /\ loggedOut /\ ~stray => r.at # "sent"
  /\ d \in Probers /\ r.at \in {"idle", "request"} => r.who = None
  /\ Gone /\ d \in Probers \ outdated => r.who = None /\ r.at # "have"
  /\ d = "logout" /\ r.at \in {"idle", "request"} => call["logout"].at \in {"idle", "request"}

LEMMA LogoutKept ==
  ASSUME LogoutInv, UNCHANGED historyVars,
         loggedOut => credentials'.token = 0,
         loggedOut /\ ~stray => driveInfo' = None,
         Gone => probes'.shown = None,
         \A p \in outdated : p \in outdated' \/ (call'[p].who = None /\ call'[p].at # "have"),
         \A d \in Callers : call'[d] = call[d] \/ Harmless(d, call'[d])
  PROVE  LogoutInv'
  <1> ProbersFresh /\ Cleared /\ Quiet /\ Overtaken BY DEF LogoutInv
  <1> USE CallersAre
  <1>1. loggedOut' = loggedOut /\ stray' = stray BY DEF historyVars
  <1>2. ProbersFresh' BY DEF ProbersFresh, Harmless
  <1>3. Cleared' BY <1>1 DEF Cleared, Harmless
  <1>4. Quiet' BY <1>1 DEF Quiet, Harmless
  <1>5. Gone' => Gone BY <1>1 DEF Gone, Harmless
  <1>6. Overtaken' BY <1>5 DEF Overtaken, Harmless
  <1> QED BY <1>2, <1>3, <1>4, <1>6 DEF LogoutInv

\* The same, for one caller's step.
LEMMA LogoutMoves ==
  ASSUME Typed, LogoutInv, UNCHANGED historyVars,
         NEW c \in Callers, NEW r \in Call, call' = [call EXCEPT ![c] = r], Harmless(c, r),
         loggedOut => credentials'.token = 0,
         loggedOut /\ ~stray => driveInfo' = None,
         Gone => probes'.shown = None,
         \A p \in outdated : p \in outdated' \/ (p = c /\ r.who = None /\ r.at # "have")
  PROVE  LogoutInv'
  <1>1. call \in [Callers -> Call] BY DEF Typed, CallsOK
  <1>2. call'[c] = r /\ \A d \in Callers : d # c => call'[d] = call[d] BY <1>1
  <1>3. \A d \in Callers : call'[d] = call[d] \/ Harmless(d, call'[d]) BY <1>2
  <1>4. \A p \in outdated : p \in outdated' \/ (call'[p].who = None /\ call'[p].at # "have")
    BY <1>2
  <1> QED BY <1>3, <1>4, LogoutKept

\* A step in which the account and its probes stay, and no call moves.
LEMMA LogoutStays ==
  ASSUME LogoutInv, UNCHANGED <<call, outdated, probes, historyVars>>,
         credentials' = credentials, driveInfo' \in {driveInfo, None}
  PROVE  LogoutInv'
  <1>1. loggedOut => credentials'.token = 0 BY DEF LogoutInv, Cleared
  <1>2. loggedOut /\ ~stray => driveInfo' = None BY DEF LogoutInv, Quiet
  <1>3. Gone => probes'.shown = None BY DEF LogoutInv, Overtaken
  <1> QED BY <1>1, <1>2, <1>3, LogoutKept

\* A request goes on, towards an account or none, and keeps what it knows.
LEMMA LogoutRequest ==
  ASSUME Typed, LogoutInv, UNCHANGED historyVars, UNCHANGED probeVars,
         credentials' = credentials, driveInfo' = driveInfo \/ ~loggedOut \/ stray,
         NEW c \in Callers, c # "logout", NEW r \in Call, call' = [call EXCEPT ![c] = r],
         r.at \in {"sent", "refresh", "exchange", "have", "unlinked", "failed"},
         r.who = call[c].who,
         loggedOut => r.at # "exchange",
         loggedOut /\ ~stray => r.at \notin {"sent", "have"}
  PROVE  LogoutInv'
  <1>1. loggedOut => credentials'.token = 0 BY DEF LogoutInv, Cleared
  <1>2. loggedOut /\ ~stray => driveInfo' = None BY DEF LogoutInv, Quiet
  <1>3. Gone => probes'.shown = None BY DEF LogoutInv, Overtaken, probeVars
  <1>4. outdated' = outdated BY DEF probeVars
  <1>5. Harmless(c, r) BY DEF Harmless, LogoutInv, Overtaken, Gone
  <1> QED BY <1>1, <1>2, <1>3, <1>4, <1>5, LogoutMoves

LEMMA CachedLogout ==
  ASSUME Typed, LogoutInv, NEW c \in Callers, c # "logout", Cached(c)  PROVE LogoutInv'
  <1>1. TokensOK /\ CallsOK /\ call \in [Callers -> Call] BY DEF Typed, CallsOK
  <1>2. /\ UNCHANGED historyVars /\ UNCHANGED probeVars /\ credentials' = credentials
        /\ driveInfo' = driveInfo
    BY DEF Cached, tokenVars
  <1>3. loggedOut => credentials.token = 0 BY DEF LogoutInv, Cleared
  <1>4. loggedOut /\ ~stray => driveInfo = None BY DEF LogoutInv, Quiet
  <1>5. CASE driveInfo # None
    <2> DEFINE q == Step(c, "have")
               r == [q EXCEPT !.info = driveInfo]
    <2>1. q \in Call /\ q.at = "have" /\ q.who = call[c].who BY <1>1, StepFields
    <2>2. call' = [call EXCEPT ![c] = r] BY <1>5 DEF Cached, Becomes
    <2> HIDE DEF q
    <2>3. r \in Call /\ r.at = "have" /\ r.who = call[c].who BY <1>1, <2>1 DEF Call, TokensOK
    <2> HIDE DEF r
    <2> QED BY <1>2, <1>4, <1>5, <2>2, <2>3, LogoutRequest
  <1>6. CASE driveInfo = None
    <2> DEFINE r == Sent(c, credentials.token, FALSE)
    <2>1. credentials.token \in Token BY <1>1 DEF TokensOK, Credentials
    <2>2. /\ r \in Call /\ r.who = call[c].who
          /\ r.at = IF credentials.token = 0 THEN "unlinked" ELSE "sent"
      BY <1>1, <2>1, SentFields
    <2>3. call' = [call EXCEPT ![c] = r] BY <1>6 DEF Cached, Becomes
    <2> HIDE DEF r
    <2> QED BY <1>2, <1>3, <2>2, <2>3, LogoutRequest
  <1> QED BY <1>5, <1>6

LEMMA AnsweredLogout ==
  ASSUME Typed, LogoutInv, NEW c \in Callers, c # "logout", Answered(c)  PROVE LogoutInv'
  <1>1. TokensOK /\ CallsOK /\ call \in [Callers -> Call] BY DEF Typed, CallsOK
  <1>2. /\ UNCHANGED historyVars /\ UNCHANGED probeVars /\ credentials' = credentials
    BY DEF Answered, tokenVars
  <1>3. ~loggedOut \/ stray BY DEF Answered, LogoutInv, Quiet
  <1>4. /\ call[c].token \in Token /\ Owner(call[c].token) \in Accounts \cup {None}
    BY <1>1, CallFields, OwnerIs DEF CallsOK
  <1>5. PICK at \in {"have", "unlinked", "refresh", "failed"} :
          \/ call' = [call EXCEPT ![c] = Step(c, at)]
          \/ call' = [call EXCEPT ![c] = [Step(c, at) EXCEPT !.info = Owner(call[c].token)]]
          \/ call' = [call EXCEPT ![c] = [Step(c, at) EXCEPT !.token = call[c].token]]
    <2>1. CASE call[c].token \in expired BY <2>1 DEF Answered, Becomes
    <2>2. CASE call[c].token \notin expired BY <2>2 DEF Answered, Becomes
    <2> QED BY <2>1, <2>2
  <1> DEFINE q == Step(c, at)
  <1>6. q \in Call /\ q.at = at /\ q.who = call[c].who BY <1>1, StepFields
  <1>7. \/ call' = [call EXCEPT ![c] = q]
        \/ call' = [call EXCEPT ![c] = [q EXCEPT !.info = Owner(call[c].token)]]
        \/ call' = [call EXCEPT ![c] = [q EXCEPT !.token = call[c].token]]
    BY <1>5
  <1> HIDE DEF q
  <1>8. [q EXCEPT !.info = Owner(call[c].token)] \in Call
        /\ [q EXCEPT !.info = Owner(call[c].token)].at = at
        /\ [q EXCEPT !.info = Owner(call[c].token)].who = call[c].who
    BY <1>4, <1>6 DEF Call
  <1>9. [q EXCEPT !.token = call[c].token] \in Call
        /\ [q EXCEPT !.token = call[c].token].at = at
        /\ [q EXCEPT !.token = call[c].token].who = call[c].who
    BY <1>4, <1>6 DEF Call
  <1>10. PICK r \in Call : /\ r.at = at /\ r.who = call[c].who
                           /\ call' = [call EXCEPT ![c] = r]
    BY <1>6, <1>7, <1>8, <1>9
  <1> QED BY <1>2, <1>3, <1>10, LogoutRequest

LEMMA RefreshLogout ==
  ASSUME Typed, LogoutInv, NEW c \in Callers, c # "logout", Refresh(c)  PROVE LogoutInv'
  <1>1. TokensOK /\ CallsOK /\ call \in [Callers -> Call] BY DEF Typed, CallsOK
  <1>2. /\ UNCHANGED historyVars /\ UNCHANGED probeVars /\ credentials' = credentials
        /\ driveInfo' = driveInfo
    BY DEF Refresh, tokenVars
  <1>3. loggedOut => credentials.token = 0 BY DEF LogoutInv, Cleared
  <1>4. credentials.token \in Token /\ credentials.user \in Accounts \cup {None}
    BY <1>1 DEF TokensOK, Credentials
  <1>5. CASE SomebodyRefreshed(c) /\ Becomes(c, Sent(c, credentials.token, TRUE))
    <2> DEFINE r == Sent(c, credentials.token, TRUE)
    <2>1. ~loggedOut BY <1>3, <1>5 DEF SomebodyRefreshed
    <2>2. r \in Call /\ r.who = call[c].who /\ r.at \in {"unlinked", "sent"}
      BY <1>1, <1>4, SentFields
    <2>3. call' = [call EXCEPT ![c] = r] BY <1>5 DEF Becomes
    <2> HIDE DEF r
    <2> QED BY <1>2, <2>1, <2>2, <2>3, LogoutRequest
  <1>6. CASE Becomes(c, Step(c, "unlinked"))
    <2> DEFINE r == Step(c, "unlinked")
    <2>1. r \in Call /\ r.who = call[c].who /\ r.at = "unlinked" BY <1>1, StepFields
    <2>2. call' = [call EXCEPT ![c] = r] BY <1>6 DEF Becomes
    <2> HIDE DEF r
    <2> QED BY <1>2, <2>1, <2>2, LogoutRequest
  <1>7. CASE /\ credentials.token # 0
             /\ Becomes(c, [Step(c, "exchange") EXCEPT !.token = credentials.token,
                                                       !.info = credentials.user])
    <2> DEFINE p == Step(c, "exchange")
               q == [p EXCEPT !.token = credentials.token]
               r == [q EXCEPT !.info = credentials.user]
    <2>1. p \in Call /\ p.who = call[c].who /\ p.at = "exchange" BY <1>1, StepFields
    <2>2. call' = [call EXCEPT ![c] = r] BY <1>7 DEF Becomes
    <2> HIDE DEF p
    <2>3. q \in Call /\ q.who = call[c].who /\ q.at = "exchange" BY <1>4, <2>1 DEF Call
    <2> HIDE DEF q
    <2>4. r \in Call /\ r.who = call[c].who /\ r.at = "exchange" BY <1>4, <2>3 DEF Call
    <2> HIDE DEF r
    <2>5. ~loggedOut BY <1>3, <1>7
    <2> QED BY <1>2, <2>2, <2>4, <2>5, LogoutRequest
  <1> QED BY <1>5, <1>6, <1>7 DEF Refresh

\* No exchange is under way once the account is cleared.
LEMMA ExchangedLogout ==
  ASSUME Typed, LogoutInv, NEW c \in Callers, c # "logout", Exchanged(c)  PROVE LogoutInv'
  <1>1. TokensOK /\ CallsOK /\ call \in [Callers -> Call] BY DEF Typed, CallsOK
  <1>2. UNCHANGED historyVars /\ UNCHANGED probeVars BY DEF Exchanged
  <1>3. ~loggedOut BY DEF Exchanged, LogoutInv, Cleared
  <1>4. c \in Probers => ProbersFresh BY DEF LogoutInv
  <1>5. PICK r \in Call : /\ r.at \in {"sent", "unlinked", "failed"}
                          /\ call' = [call EXCEPT ![c] = r]
    <2>1. CASE Becomes(c, Step(c, "failed"))
      <3>1. Step(c, "failed") \in Call /\ Step(c, "failed").at = "failed" BY <1>1, StepFields
      <3> QED BY <2>1, <3>1 DEF Becomes
    <2>2. CASE /\ Len(issued) < MaxTokens /\ issued' = Append(issued, call[c].info)
               /\ call[c].info = Owner(call[c].token)
               /\ Becomes(c, Sent(c, Len(issued'), TRUE))
      <3>1. call[c].token \in Token /\ call[c].token # 0 /\ call[c].token <= Len(issued)
        BY <1>1, CallFields DEF Exchanged, CallsOK, TokensOK
      <3>2. call[c].info \in Accounts BY <1>1, <2>2, <3>1, OwnerIs
      <3>3. Len(issued') = Len(issued) + 1 /\ Len(issued) \in Nat
        BY <1>1, <2>2, <3>2 DEF TokensOK
      <3>4. Len(issued') \in Token
        BY <2>2, <3>3, AccountAssumption DEF Token, MaxTokens
      <3>5. /\ Sent(c, Len(issued'), TRUE) \in Call
            /\ Sent(c, Len(issued'), TRUE).at \in {"unlinked", "sent"}
        BY <1>1, <3>4, SentFields
      <3> QED BY <2>2, <3>5 DEF Becomes
    <2> QED BY <2>1, <2>2 DEF Exchanged
  <1>6. Harmless(c, r) BY <1>3, <1>5 DEF Harmless, Gone
  <1>7. outdated' = outdated BY <1>2 DEF probeVars
  <1>8. ~Gone BY <1>3 DEF Gone
  <1> QED BY <1>2, <1>3, <1>5, <1>6, <1>7, <1>8, LogoutMoves

LEMMA RequestLogout ==
  ASSUME Typed, LogoutInv, NEW c \in Callers, c # "logout", Request(c)  PROVE LogoutInv'
  BY CachedLogout, AnsweredLogout, RefreshLogout, ExchangedLogout DEF Request

\* The identity of a token: a probe that asks for it will be discarded.
LEMMA IdentifyLogout ==
  ASSUME Typed, LogoutInv, NEW c \in Callers, c # "logout", NEW next \in Call,
         next.at \notin {"idle", "request", "sent", "exchange"}, Identify(c, next)
  PROVE  LogoutInv'
  <1>1. /\ UNCHANGED historyVars /\ UNCHANGED probeVars /\ driveInfo' = driveInfo
        /\ call[c].at = "have" /\ call' = [call EXCEPT ![c] = next]
    BY DEF Identify
  <1>2. credentials'.token = credentials.token BY DEF Identify, Typed, TokensOK, Credentials
  <1>3. loggedOut => credentials'.token = 0 BY <1>2 DEF LogoutInv, Cleared
  <1>4. loggedOut /\ ~stray => driveInfo' = None BY <1>1 DEF LogoutInv, Quiet
  <1>5. Gone => probes'.shown = None BY <1>1 DEF LogoutInv, Overtaken, probeVars
  <1>6. outdated' = outdated BY <1>1 DEF probeVars
  <1>7. Harmless(c, next) BY <1>1 DEF Harmless, LogoutInv, Overtaken
  <1> QED BY <1>1, <1>3, <1>4, <1>5, <1>6, <1>7, LogoutMoves

LEMMA ProbeIdentifiesLogout ==
  ASSUME Typed, LogoutInv, NEW p \in Probers, ProbeIdentifies(p)  PROVE LogoutInv'
  <1> DEFINE q == [Idle EXCEPT !.at = "cache"]
             r == [q EXCEPT !.who = call[p].info]
  <1>1. p \in Callers /\ p # "logout" /\ call \in [Callers -> Call]
    BY CallersAre DEF Typed, CallsOK
  <1>2. call[p].info \in Accounts \cup {None} BY <1>1, CallFields
  <1>3. Identify(p, r) BY DEF ProbeIdentifies
  <1>4. q \in Call /\ q.at = "cache" BY IdleAtFields
  <1> HIDE DEF q
  <1>5. r \in Call /\ r.at = "cache" BY <1>2, <1>4 DEF Call
  <1> HIDE DEF r
  <1> QED BY <1>1, <1>3, <1>5, IdentifyLogout

LEMMA LoginIdentifiesLogout == ASSUME Typed, LogoutInv, LoginIdentifies  PROVE LogoutInv'
  <1> DEFINE q == [Idle EXCEPT !.at = "named"]
             r == [q EXCEPT !.info = call["login"].info]
  <1>1. "login" \in Callers /\ call \in [Callers -> Call] BY CallersAre DEF Typed, CallsOK
  <1>2. call["login"].info \in Accounts \cup {None} BY <1>1, CallFields
  <1>3. Identify("login", r) BY DEF LoginIdentifies
  <1>4. q \in Call /\ q.at = "named" BY IdleAtFields
  <1> HIDE DEF q
  <1>5. r \in Call /\ r.at = "named" BY <1>2, <1>4 DEF Call
  <1> HIDE DEF r
  <1> QED BY <1>1, <1>3, <1>5, IdentifyLogout

\* A probe launched is one whose goroutine knows nothing.
LEMMA RequestProbeLogout ==
  ASSUME Typed, LogoutInv, NEW c \in Callers, RequestProbe(c)  PROVE LogoutInv'
  <1> DEFINE calls == [call EXCEPT ![c] = Idle]
  <1>1. /\ UNCHANGED historyVars /\ credentials' = credentials /\ driveInfo' = driveInfo
        /\ outdated' = outdated /\ probes'.shown = probes.shown /\ call[c].at = "request"
    BY DEF RequestProbe, tokenVars, Typed, ProbesOK
  <1>2. loggedOut => credentials'.token = 0 BY <1>1 DEF LogoutInv, Cleared
  <1>3. loggedOut /\ ~stray => driveInfo' = None BY <1>1 DEF LogoutInv, Quiet
  <1>4. Gone => probes'.shown = None BY <1>1 DEF LogoutInv, Overtaken
  <1>5. call \in [Callers -> Call] BY DEF Typed, CallsOK
  <1>6. calls \in [Callers -> Call] BY <1>5, IdleFields
  <1>7. calls[c] = Idle /\ \A d \in Callers \ {c} : calls[d] = call[d] BY <1>5
  <1>8. call' = calls \/ Launch(calls) BY DEF RequestProbe
  <1> HIDE DEF calls
  <1>9. Harmless(c, Idle) BY <1>1, IdleFields DEF Harmless
  <1>10. CASE call' = calls
    <2>1. \A d \in Callers : call'[d] = call[d] \/ Harmless(d, call'[d])
      BY <1>7, <1>9, <1>10
    <2> QED BY <1>1, <1>2, <1>3, <1>4, <2>1, LogoutKept
  <1>11. CASE Launch(calls)
    <2>1. PICK p \in Probers :
            /\ calls[p].at = "idle" /\ call'[p].at = "cache"
            /\ call'[p].token = calls[p].token /\ call'[p].who = calls[p].who
            /\ \A d \in Callers \ {p} : call'[d] = calls[d]
      BY <1>6, <1>11, LaunchIs
    <2>2. p \in Callers /\ p # "logout" BY CallersAre
    <2>3. call'[p].who = None
      BY <1>7, <2>1, <2>2, IdleFields DEF LogoutInv, ProbersFresh
    <2>4. Harmless(p, call'[p]) BY <2>1, <2>2, <2>3 DEF Harmless
    <2>5. \A d \in Callers : call'[d] = call[d] \/ Harmless(d, call'[d])
      BY <1>7, <1>9, <2>1, <2>4
    <2> QED BY <1>1, <1>2, <1>3, <1>4, <2>5, LogoutKept
  <1> QED BY <1>8, <1>10, <1>11

LEMMA PollLogout == ASSUME Typed, LogoutInv, Poll  PROVE LogoutInv'
  <1>1. /\ UNCHANGED historyVars /\ credentials' = credentials /\ driveInfo' = driveInfo
        /\ outdated' = outdated /\ probes'.shown = probes.shown
    BY DEF Poll, tokenVars, Typed, ProbesOK
  <1>2. loggedOut => credentials'.token = 0 BY <1>1 DEF LogoutInv, Cleared
  <1>3. loggedOut /\ ~stray => driveInfo' = None BY <1>1 DEF LogoutInv, Quiet
  <1>4. Gone => probes'.shown = None BY <1>1 DEF LogoutInv, Overtaken
  <1>5. call \in [Callers -> Call] /\ Launch(call) BY DEF Poll, Typed, CallsOK
  <1>6. PICK p \in Probers :
          /\ call[p].at = "idle" /\ call'[p].at = "cache"
          /\ call'[p].token = call[p].token /\ call'[p].who = call[p].who
          /\ \A d \in Callers \ {p} : call'[d] = call[d]
    BY <1>5, LaunchIs
  <1>7. p # "logout" /\ call'[p].who = None BY <1>6, CallersAre DEF LogoutInv, ProbersFresh
  <1>8. Harmless(p, call'[p]) BY <1>6, <1>7 DEF Harmless
  <1>9. \A d \in Callers : call'[d] = call[d] \/ Harmless(d, call'[d]) BY <1>6, <1>8
  <1> QED BY <1>1, <1>2, <1>3, <1>4, <1>9, LogoutKept

\* Every probe on its way is overtaken: only the ones that know nothing are not.
LEMMA InvalidateLogout ==
  ASSUME Typed, LogoutInv, UNCHANGED historyVars, Invalidated,
         UNCHANGED <<credentials, driveInfo>>,
         NEW c \in Callers \ Probers,
         NEW to \in {"idle", "request", "clear"}, call' = [call EXCEPT ![c] = Step(c, to)]
  PROVE  LogoutInv'
  <1>1. call \in [Callers -> Call] BY DEF Typed, CallsOK
  <1>2. Step(c, to) \in Call /\ Step(c, to).at = to BY <1>1, StepFields
  <1>3. call'[c].at = to /\ \A d \in Callers \ {c} : call'[d] = call[d] BY <1>1, <1>2
  <1>4. loggedOut' = loggedOut /\ stray' = stray BY DEF historyVars
  <1>5. Probers \subseteq Callers \ {c} BY CallersAre
  <1>6. ProbersFresh' BY <1>3, <1>5 DEF LogoutInv, ProbersFresh
  <1>7. Cleared' BY <1>3, <1>4 DEF LogoutInv, Cleared
  <1>8. Quiet' BY <1>3, <1>4 DEF LogoutInv, Quiet
  <1>9. probes'.shown = None BY DEF Invalidated, Typed, ProbesOK
  <1>10. \A p \in Probers \ outdated' : call[p].at \in {"idle", "request"} BY DEF Invalidated
  <1>11. \A p \in Probers \ outdated' : call'[p].who = None /\ call'[p].at # "have"
    BY <1>3, <1>5, <1>10 DEF LogoutInv, ProbersFresh
  <1>12. Overtaken' BY <1>9, <1>11 DEF Overtaken
  <1> QED BY <1>6, <1>7, <1>8, <1>12 DEF LogoutInv

LEMMA PublishLogout ==
  ASSUME Typed, LogoutInv, NEW p \in Probers, Publish(p)  PROVE LogoutInv'
  <1> DEFINE at == IF p \in outdated \/ probes.rerun THEN "request" ELSE "idle"
             r == [Idle EXCEPT !.at = at]
  <1>1. /\ UNCHANGED historyVars /\ credentials' = credentials /\ driveInfo' = driveInfo
        /\ outdated' = outdated \ {p}
    BY DEF Publish, tokenVars
  <1>2. loggedOut => credentials'.token = 0 BY <1>1 DEF LogoutInv, Cleared
  <1>3. loggedOut /\ ~stray => driveInfo' = None BY <1>1 DEF LogoutInv, Quiet
  <1>4. Gone => probes'.shown = None BY DEF Publish, LogoutInv, Overtaken
  <1>5. call' = [call EXCEPT ![p] = r] BY DEF Publish
  <1>6. p \in Callers /\ p # "logout" BY CallersAre
  <1>7. r \in Call /\ r.at \in {"idle", "request"} /\ r.who = None BY IdleAtFields
  <1> HIDE DEF r
  <1>8. Harmless(p, r) BY <1>6, <1>7 DEF Harmless
  <1> QED BY <1>1, <1>2, <1>3, <1>4, <1>5, <1>6, <1>7, <1>8, LogoutMoves

\* The other steps of a caller that is neither a probe nor the logout.
LEMMA OtherLogout ==
  ASSUME Typed, LogoutInv, UNCHANGED historyVars, UNCHANGED probeVars,
         loggedOut => credentials'.token = 0,
         driveInfo' \in {driveInfo, None},
         NEW c \in Callers \ Probers, c # "logout", NEW r \in Call,
         call' = [call EXCEPT ![c] = r], r.at \notin {"sent", "exchange"}
  PROVE  LogoutInv'
  <1>1. loggedOut /\ ~stray => driveInfo' = None BY DEF LogoutInv, Quiet
  <1>2. Gone => probes'.shown = None BY DEF LogoutInv, Overtaken, probeVars
  <1>3. outdated' = outdated BY DEF probeVars
  <1>4. Harmless(c, r) BY DEF Harmless
  <1> QED BY <1>1, <1>2, <1>3, <1>4, LogoutMoves

LEMMA WorkLogout == ASSUME Typed, LogoutInv, WorkBegins \/ WorkEnds  PROVE LogoutInv'
  <1>1. /\ UNCHANGED historyVars /\ UNCHANGED probeVars
        /\ credentials' = credentials /\ driveInfo' = driveInfo
    BY DEF WorkBegins, WorkEnds, tokenVars
  <1>2. loggedOut => credentials'.token = 0 BY <1>1 DEF LogoutInv, Cleared
  <1>3. "work" \in Callers \ Probers /\ call \in [Callers -> Call]
    BY CallersAre DEF Typed, CallsOK
  <1>4. Step("work", "cache") \in Call /\ Step("work", "cache").at = "cache"
    BY <1>3, StepFields
  <1>5. call' = [call EXCEPT !["work"] = Step("work", "cache")]
        \/ call' = [call EXCEPT !["work"] = Idle]
    BY DEF WorkBegins, WorkEnds, Goes, Becomes
  <1> QED BY <1>1, <1>2, <1>3, <1>4, <1>5, IdleFields, OtherLogout

LEMMA LoginLogout ==
  ASSUME Typed, LogoutInv, BeginConfirmation \/ TokensArrive \/ NameAccount \/ LoginFails
  PROVE  LogoutInv'
  <1>1. TokensOK /\ CallsOK /\ call \in [Callers -> Call] BY DEF Typed, CallsOK
  <1>2. UNCHANGED historyVars /\ UNCHANGED probeVars /\ driveInfo' \in {driveInfo, None}
    BY DEF BeginConfirmation, TokensArrive, NameAccount, LoginFails
  <1>3. credentials'.token \in {credentials.token, 0}
    BY <1>1, NoCredentialsFields
    DEF BeginConfirmation, TokensArrive, NameAccount, LoginFails, tokenVars, TokensOK, Credentials
  <1>4. loggedOut => credentials'.token = 0 BY <1>3 DEF LogoutInv, Cleared
  <1>5. "login" \in Callers \ Probers BY CallersAre
  <1>6. PICK r \in Call : call' = [call EXCEPT !["login"] = r] /\ r.at \notin {"sent", "exchange"}
    <2>1. CASE BeginConfirmation
      <3>1. Step("login", "tokens") \in Call /\ Step("login", "tokens").at = "tokens"
        BY <1>1, <1>5, StepFields
      <3> QED BY <2>1, <3>1 DEF BeginConfirmation, Goes, Becomes
    <2>2. CASE call' = [call EXCEPT !["login"] = Idle] BY <2>2, IdleFields
    <2>3. CASE /\ Len(issued) < MaxTokens /\ \E a \in Accounts : issued' = Append(issued, a)
               /\ call' = [call EXCEPT !["login"] = [Idle EXCEPT !.at = "set",
                                                                !.token = Len(issued')]]
      <3>1. Len(issued') = Len(issued) + 1 /\ Len(issued) \in Nat BY <1>1, <2>3 DEF TokensOK
      <3>2. Len(issued') \in Token BY <2>3, <3>1, AccountAssumption DEF Token, MaxTokens
      <3> DEFINE q == [Idle EXCEPT !.at = "set"]
                 r == [q EXCEPT !.token = Len(issued')]
      <3>3. q \in Call /\ q.at = "set" BY IdleAtFields
      <3>4. call' = [call EXCEPT !["login"] = r] BY <2>3
      <3> HIDE DEF q
      <3>5. r \in Call /\ r.at = "set" BY <3>2, <3>3 DEF Call
      <3> QED BY <3>4, <3>5
    <2>4. CASE NameAccount
      <3>1. PICK ok \in BOOLEAN :
              call' = [call EXCEPT !["login"] = [Idle EXCEPT !.at = IF ok THEN "invalidate" ELSE "idle"]]
        BY <2>4 DEF NameAccount
      <3> DEFINE at == IF ok THEN "invalidate" ELSE "idle"
      <3>2. at \in {"invalidate", "idle"} OBVIOUS
      <3>3. call' = [call EXCEPT !["login"] = [Idle EXCEPT !.at = at]] BY <3>1
      <3> HIDE DEF at
      <3> QED BY <3>2, <3>3, IdleAtFields
    <2> QED BY <2>1, <2>2, <2>3, <2>4 DEF TokensArrive, LoginFails
  <1> QED BY <1>2, <1>4, <1>5, <1>6, OtherLogout

\* A login ends what Logout promised.
LEMMA SetTokensLogout == ASSUME Typed, LogoutInv, SetTokens  PROVE LogoutInv'
  <1>1. ~loggedOut' BY DEF SetTokens
  <1>2. \A p \in Probers : call'[p] = call[p]
    BY CallersAre DEF SetTokens, Typed, CallsOK
  <1>3. ProbersFresh' BY <1>2 DEF LogoutInv, ProbersFresh
  <1> QED BY <1>1, <1>3 DEF LogoutInv, Cleared, Quiet, Overtaken, Gone

LEMMA LogoutBeginsLogout == ASSUME Typed, LogoutInv, LogoutBegins  PROVE LogoutInv'
  <1>1. /\ UNCHANGED historyVars /\ Invalidated /\ UNCHANGED <<credentials, driveInfo>>
        /\ call' = [call EXCEPT !["logout"] = Step("logout", "clear")]
    BY DEF LogoutBegins, tokenVars, Goes, Becomes
  <1> QED BY <1>1, CallersAre, InvalidateLogout

\* refreshMu keeps exchanges away, and an answer on its way makes a stray.
LEMMA ClearCredentialsLogout == ASSUME Typed, LogoutInv, ClearCredentials  PROVE LogoutInv'
  <1>1. call \in [Callers -> Call] /\ LockOK BY DEF Typed, CallsOK
  <1>2. /\ refreshMu = None /\ credentials' = NoCredentials /\ driveInfo' = None
        /\ call' = [call EXCEPT !["logout"] = Step("logout", "invalidate")]
        /\ stray' = (\E c \in Callers : call[c].at = "sent")
    BY DEF ClearCredentials, MayClear, Goes, Becomes
  <1>3. Step("logout", "invalidate") \in Call /\ Step("logout", "invalidate").at = "invalidate"
    BY <1>1, CallersAre, StepFields
  <1>4. call'["logout"].at = "invalidate" /\ \A d \in Callers \ {"logout"} : call'[d] = call[d]
    BY <1>1, <1>2, <1>3, CallersAre
  <1>5. \A c \in Callers : call[c].at # "exchange" BY <1>1, <1>2 DEF LockOK
  <1>6. Cleared' BY <1>2, <1>4, <1>5, NoCredentialsFields DEF Cleared
  <1>7. Quiet' BY <1>2, <1>4 DEF Quiet
  <1>8. ProbersFresh' BY <1>4, CallersAre DEF LogoutInv, ProbersFresh
  <1>9. Overtaken' BY <1>4 DEF Overtaken, Gone
  <1> QED BY <1>6, <1>7, <1>8, <1>9 DEF LogoutInv

LEMMA RestartLogout == ASSUME Typed, LogoutInv, Restart  PROVE LogoutInv'
  <1>1. PICK p \in Probers :
          /\ call'[p].at = "cache" /\ call'[p].token = 0 /\ call'[p].who = None
          /\ \A d \in Callers \ {p} : call'[d] = Idle
    BY RestartCalls
  <1>2. \A d \in Callers : call'[d].at \in {"idle", "cache"} /\ call'[d].who = None
    BY <1>1, IdleFields
  <1>3. loggedOut' => credentials'.token = 0 BY NoCredentialsFields DEF Restart
  <1>4. driveInfo' = None /\ probes'.shown = None BY DEF Restart
  <1>5. ProbersFresh' BY <1>2, CallersAre DEF ProbersFresh
  <1>6. Cleared' BY <1>2, <1>3 DEF Cleared
  <1>7. Quiet' BY <1>2, <1>4 DEF Quiet
  <1>8. Overtaken' BY <1>2, <1>4, CallersAre DEF Overtaken
  <1> QED BY <1>5, <1>6, <1>7, <1>8 DEF LogoutInv

LEMMA InitLogout == Init => LogoutInv
  BY IdleFields, CallersAre
  DEF Init, LogoutInv, ProbersFresh, Cleared, Quiet, Overtaken, Gone

LEMMA NextLogout == ASSUME Typed, LogoutInv, [Next]_vars  PROVE LogoutInv'
  <1> USE CallersAre
  <1>1. ASSUME NEW p \in Probers, Probe(p)  PROVE LogoutInv'
    BY <1>1, RequestLogout, ProbeIdentifiesLogout, PublishLogout, RequestProbeLogout DEF Probe
  <1>2. ASSUME NEW c \in {"work", "login", "logout", "page"},
               NEW from \in {"idle", "unlinked", "invalidate"},
               Invalidate(c, from, "request"), UNCHANGED historyVars
        PROVE  LogoutInv'
    <2>1. /\ Invalidated /\ UNCHANGED <<credentials, driveInfo>>
          /\ call' = [call EXCEPT ![c] = Step(c, "request")]
      BY <1>2 DEF Invalidate, tokenVars, Goes, Becomes
    <2>2. c \in Callers \ Probers BY DEF Callers
    <2> QED BY <1>2, <2>1, <2>2, InvalidateLogout
  <1>3. CASE WorkBegins BY <1>3, WorkLogout
  <1>4. CASE Work
    <2>1. CASE Invalidate("work", "unlinked", "request") /\ UNCHANGED <<events, historyVars>>
      BY <1>2, <2>1
    <2> QED BY <1>4, <2>1, RequestLogout, WorkLogout, RequestProbeLogout DEF Work
  <1>5. CASE ConfirmLogin
    <2>1. CASE Invalidate("login", "invalidate", "request") /\ UNCHANGED <<events, historyVars>>
      BY <1>2, <2>1
    <2> QED BY <1>5, <2>1, LoginLogout, SetTokensLogout, RequestLogout, LoginIdentifiesLogout,
               RequestProbeLogout DEF ConfirmLogin
  <1>6. CASE Logout
    <2>1. CASE Invalidate("logout", "invalidate", "request") /\ UNCHANGED <<events, historyVars>>
      BY <1>2, <2>1
    <2> QED BY <1>6, <2>1, LogoutBeginsLogout, ClearCredentialsLogout, RequestProbeLogout DEF Logout
  <1>7. CASE RefreshProbe
    <2>1. CASE Event /\ Invalidate("page", "idle", "request") /\ UNCHANGED historyVars
      BY <1>2, <2>1
    <2> QED BY <1>7, <2>1, RequestProbeLogout DEF RefreshProbe
  <1>8. CASE Poll \/ BeginConfirmation BY <1>8, PollLogout, LoginLogout
  <1>9. CASE \/ StartLogin \/ CancelLogin \/ (\E s \in Session : LinkExpires(s))
             \/ Expire \/ CacheExpires \/ UNCHANGED vars
    <2>1. /\ UNCHANGED <<call, outdated, probes, historyVars>> /\ credentials' = credentials
          /\ driveInfo' \in {driveInfo, None}
      BY <1>9 DEF StartLogin, CancelLogin, LinkExpires, Expire, CacheExpires, vars, tokenVars,
                  probeVars, historyVars
    <2> QED BY <2>1, LogoutStays
  <1>10. CASE Restart BY <1>10, RestartLogout
  <1> QED BY <1>1, <1>3, <1>4, <1>5, <1>6, <1>7, <1>8, <1>9, <1>10 DEF Next

\* Once Logout has cleared the account no refresh or identity on its way brings a
\* token back, and no probe shows it as linked again, for any number of accounts,
\* probes, logins and failures (Engine.Logout, clearCredentials, refreshProbe).
THEOREM LogoutSticks == Spec => []LogoutHolds
  <1>1. Spec => []Typed BY InitTyped, NextTyped, PTL DEF Spec
  <1>2. Spec => []LogoutInv BY <1>1, InitLogout, NextLogout, PTL DEF Spec
  <1> QED BY <1>2, LogoutImplies, PTL
=============================================================================
