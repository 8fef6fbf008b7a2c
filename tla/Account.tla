------------------------------ MODULE Account ------------------------------
(***************************************************************************)
(* The account of the source drive: scan-code login, its tokens, the cached*)
(* drive information, and the engine's probe that tells the scheduler      *)
(* whether an account is linked.                                           *)
(*                                                                         *)
(* Requests overlap: those of the probe, of scans and transfers ("work"),  *)
(* and of a login being confirmed.  Each goes through requestJSON one      *)
(* locked section or network answer at a time.  Tokens are numbered as     *)
(* they are issued, so a number stands for a tokenRevision as well.        *)
(***************************************************************************)
EXTENDS Integers, Sequences, FiniteSets

CONSTANTS
  Accounts,        (* accounts of the cloud drive                           *)
  Linked,          (* the account in the credential file at first, or None  *)
  Probers,         (* goroutines for refreshProbe                           *)
  None,
  MaxLogins,       (* StartLogin calls in one behaviour                     *)
  MaxEvents        (* calls from outside, expired tokens, failures and      *)
                   (* restarts together                                     *)

ASSUME AccountAssumption ==
  /\ None \notin Accounts /\ Linked \in Accounts \cup {None}
  /\ MaxLogins \in Nat /\ MaxEvents \in Nat /\ Probers # {}
  /\ Probers \cap {"work", "login", "logout", "page"} = {}
  /\ None \notin Probers \cup {"work", "login", "logout", "page"}

VARIABLES
  credentials,     (* CLI.credentials: the access token and UserID          *)
  stored,          (* what the credential file says of the active account   *)
  unsaved,         (* history: the last write of the file failed            *)
  issued,          (* the owner of each token issued so far                 *)
  expired,         (* tokens the service does not take any more             *)
  driveInfo,       (* CLI.driveInfo, None once invalid or over its TTL      *)
  refreshMu,       (* who holds CLI.refreshMu across an exchange            *)
  call,            (* a request in progress for each caller                 *)
  session,         (* phase of each LoginSession                            *)
  login,           (* CLI.login: the present session, or 0                  *)
  confirming,      (* the session ConfirmLogin works on                     *)
  probes,          (* Engine.probes                                         *)
  outdated,        (* probes launched before the last invalidateProbe       *)
  events,          (* so far                                                *)
  loggedOut,       (* history: cleared, and no login has set tokens since   *)
  stray            (* history: ... while an answer was on its way           *)

vars == <<credentials, stored, unsaved, issued, expired, driveInfo, refreshMu, call,
          session, login, confirming, probes, outdated, events, loggedOut, stray>>

----------------------------------------------------------------------------
Callers == Probers \cup {"work", "login", "logout", "page"}
MaxTokens == 1 + MaxEvents
Token == 0..MaxTokens
Session == 1..MaxLogins
Credentials == [token: Token, user: Accounts \cup {None}]
NoCredentials == [token |-> 0, user |-> None]
Owner(t) == IF t = 0 THEN None ELSE issued[t]

\* at: where in the request; token: the one it is sent with; again: the second authentication attempt; info: the answer; who: the account
\* a probe has already resolved.
Call == [at: {"idle", "cache", "sent", "refresh", "exchange", "have",
               "unlinked", "failed", "request", "tokens", "set", "named", "clear",
              "invalidate"},
         token: Token, again: BOOLEAN,
         info: Accounts \cup {None}, who: Accounts \cup {None}]
Idle == [at |-> "idle", token |-> 0, again |-> FALSE,
         info |-> None, who |-> None]

TypeOK ==
  /\ credentials \in Credentials /\ stored \in Credentials /\ unsaved \in BOOLEAN
  /\ issued \in Seq(Accounts) /\ Len(issued) <= MaxTokens /\ expired \subseteq 1..Len(issued)
  /\ credentials.token <= Len(issued)
  /\ driveInfo \in Accounts \cup {None}
  /\ call \in [Callers -> Call]
  /\ IF refreshMu = None THEN \A c \in Callers : call[c].at # "exchange"
     ELSE refreshMu \in Callers /\ call[refreshMu].at = "exchange"
  /\ session \in [Session -> {"new", "waiting", "finishing", "done", "failed"}]
  /\ login \in 0..MaxLogins /\ confirming \in 0..MaxLogins
  /\ probes \in [shown: Accounts \cup {None}, refreshing: BOOLEAN, rerun: BOOLEAN]
  /\ outdated \subseteq Probers
  /\ events \in 0..MaxEvents
  /\ loggedOut \in BOOLEAN /\ stray \in BOOLEAN

\* New: loadLegacyCredentials has read the file of an earlier process.
Init ==
  /\ IF Linked = None THEN issued = <<>> /\ credentials = NoCredentials
     ELSE issued = <<Linked>> /\ credentials = [token |-> 1, user |-> Linked]
  /\ stored = credentials /\ unsaved = FALSE /\ expired = {}
  /\ driveInfo = None /\ refreshMu = None
  /\ call = [c \in Callers |-> Idle]
  /\ session = [s \in Session |-> "new"] /\ login = 0 /\ confirming = 0
  /\ probes = [shown |-> None, refreshing |-> FALSE, rerun |-> FALSE]
  /\ outdated = {}
  /\ events = 0 /\ loggedOut = FALSE /\ stray = FALSE

----------------------------------------------------------------------------
tokenVars == <<credentials, stored, unsaved, issued, expired>>
loginVars == <<session, login, confirming>>
probeVars == <<probes, outdated>>
historyVars == <<loggedOut, stray>>

\* A caller's next step, with nothing of the last one but the account resolved.
Step(c, at) == [Idle EXCEPT !.at = at, !.who = call[c].who]
Becomes(c, next) == call' = [call EXCEPT ![c] = next]
Goes(c, from, to) == call[c].at = from /\ Becomes(c, Step(c, to))
Event == events < MaxEvents /\ events' = events + 1

\* persistCredentials; a failure leaves the file as it was.
Persist(ok) ==
  /\ IF ok THEN UNCHANGED events ELSE Event
  /\ stored' = IF ok THEN credentials' ELSE stored
  /\ unsaved' = ~ok

----------------------------------------------------------------------------
(* fetchDriveInfo and requestJSON, for any caller.                         *)
\* The token and its revision are read together: what a transient retry reads
\* again is left out.
Sent(c, token, again) ==
  IF token = 0 THEN Step(c, "unlinked")
  ELSE [Step(c, "sent") EXCEPT !.token = token, !.again = again]

Cached(c) ==
  /\ call[c].at = "cache"
  /\ Becomes(c, IF driveInfo # None THEN [Step(c, "have") EXCEPT !.info = driveInfo]
                ELSE Sent(c, credentials.token, FALSE))
  /\ UNCHANGED <<tokenVars, driveInfo, refreshMu, loginVars, probeVars, events, historyVars>>

\* The service answers, and fetchDriveInfo caches the answer whatever has become
\* of the account meanwhile.  An expired token is refreshed, once in a request.
Answered(c) ==
  /\ call[c].at = "sent"
  /\ \/ /\ call[c].token \notin expired
        /\ Becomes(c, [Step(c, "have") EXCEPT !.info = Owner(call[c].token)])
        /\ driveInfo' = Owner(call[c].token) /\ UNCHANGED events
     \/ /\ call[c].token \in expired
        /\ Becomes(c, IF call[c].again THEN Step(c, "unlinked")
                      ELSE [Step(c, "refresh") EXCEPT !.token = call[c].token])
        /\ UNCHANGED events /\ UNCHANGED driveInfo
     \/ Event /\ Becomes(c, Step(c, "failed")) /\ UNCHANGED driveInfo
  /\ UNCHANGED <<tokenVars, refreshMu, loginVars, probeVars, historyVars>>

\* Mutant: every request that met an expired token refreshes it.
NobodyRefreshed(c) == FALSE
\* Another request has refreshed the token this one was sent with.
SomebodyRefreshed(c) == credentials.token \notin {call[c].token, 0}

\* refreshAccessToken up to the exchange, with refreshMu taken.
Refresh(c) ==
  /\ call[c].at = "refresh" /\ refreshMu = None
  /\ \/ SomebodyRefreshed(c) /\ Becomes(c, Sent(c, credentials.token, TRUE)) /\ UNCHANGED refreshMu
     \/ /\ ~SomebodyRefreshed(c) /\ (credentials.token = 0 \/ credentials.user = None)
        /\ Becomes(c, Step(c, "unlinked")) /\ UNCHANGED refreshMu
     \/ /\ ~SomebodyRefreshed(c) /\ credentials.token # 0 /\ credentials.user # None
        /\ Becomes(c, [Step(c, "exchange") EXCEPT !.token = credentials.token,
                                                  !.info = credentials.user])
        /\ refreshMu' = c
  /\ UNCHANGED <<tokenVars, driveInfo, loginVars, probeVars, events, historyVars>>

Unlocked == None

\* The token service answers: it issues a token to the user it belongs to.
Exchanged(c) ==
  /\ call[c].at = "exchange" /\ refreshMu' = Unlocked
  /\ LET mine == call[c].info = Owner(call[c].token) IN
     \/ /\ mine /\ Len(issued) < MaxTokens
        /\ issued' = Append(issued, call[c].info)
        /\ credentials' = [credentials EXCEPT !.token = Len(issued')]
        /\ driveInfo' = None
        /\ \/ Persist(TRUE) /\ Becomes(c, Sent(c, Len(issued'), TRUE))
           \/ Persist(FALSE) /\ Becomes(c, Step(c, "failed"))
     \/ /\ IF mine THEN Event ELSE UNCHANGED events
        /\ Becomes(c, Step(c, "failed"))
        /\ UNCHANGED <<credentials, stored, unsaved, issued, driveInfo>>
  /\ UNCHANGED <<expired, loginVars, probeVars, historyVars>>

\* updateAccountIdentity, at the end of Who.  A failing write is ignored.
Identify(c, next) ==
  /\ call[c].at = "have" /\ refreshMu = None
  /\ call' = [call EXCEPT ![c] = next]
  /\ credentials' = [credentials EXCEPT !.user = call[c].info]
  /\ IF credentials' = credentials THEN UNCHANGED events /\ UNCHANGED <<stored, unsaved>>
     ELSE \E ok \in BOOLEAN : Persist(ok)
  /\ UNCHANGED <<issued, expired, driveInfo, refreshMu, loginVars, probeVars, historyVars>>

Request(c) ==
  Cached(c) \/ Answered(c) \/ Refresh(c) \/ Exchanged(c)

----------------------------------------------------------------------------
(* The engine's probe.                                                     *)
Invalidated ==
  /\ probes' = [probes EXCEPT !.shown = None, !.rerun = @ \/ probes.refreshing]
  /\ outdated' = {p \in Probers : call[p].at \notin {"idle", "request"}}

\* launchProbe, with the refreshing flag already raised by the caller.
Launch(calls) ==
  /\ \E p \in Probers : calls[p].at = "idle"
  /\ LET p == CHOOSE q \in Probers : calls[q].at = "idle" IN
       call' = [calls EXCEPT ![p].at = "cache"]

\* requestProbeRefresh: one probe at a time, and one more if it came too late.
RequestProbe(c) ==
  /\ call[c].at = "request"
  /\ LET calls == [call EXCEPT ![c] = Idle] IN
       IF probes.refreshing
       THEN /\ probes' = [probes EXCEPT !.rerun = TRUE]
            /\ call' = calls
       ELSE /\ probes' = [probes EXCEPT !.refreshing = TRUE]
            /\ Launch(calls)
  /\ UNCHANGED <<tokenVars, driveInfo, refreshMu, loginVars, outdated, events, historyVars>>

\* probe, by a page that finds the cache over its TTL.
Poll ==
  /\ ~probes.refreshing
  /\ probes' = [probes EXCEPT !.refreshing = TRUE]
  /\ Launch(call)
  /\ UNCHANGED <<tokenVars, driveInfo, refreshMu, loginVars, outdated, events, historyVars>>

\* invalidateProbe, and what the caller does next.
Invalidate(c, from, to) ==
  /\ Goes(c, from, to)
  /\ Invalidated
  /\ UNCHANGED <<tokenVars, driveInfo, refreshMu, loginVars>>

\* refreshProbe: after Who it asks for the drives.
ProbeIdentifies(p) ==
  call[p].who = None /\ Identify(p, [Idle EXCEPT !.at = "cache", !.who = call[p].info])

\* Mutant: the request for one more probe is kept.
RerunKept == probes.rerun
RerunAfter == FALSE

\* ... and shows the result, unless it was invalidated meanwhile.
Publish(p) ==
  /\ call[p].at \in {"unlinked", "failed"} \/ (call[p].at = "have" /\ call[p].who # None)
  /\ LET stale == p \in outdated \/ probes.rerun IN
       /\ probes' = [shown      |-> IF stale THEN probes.shown ELSE call[p].who,
                     refreshing |-> FALSE,
                     rerun      |-> RerunAfter]
       /\ call' = [call EXCEPT ![p] = [Idle EXCEPT !.at = IF stale THEN "request" ELSE "idle"]]
       /\ outdated' = outdated \ {p}
  /\ UNCHANGED <<tokenVars, driveInfo, refreshMu, loginVars, events, historyVars>>

Probe(p) == Request(p) \/ ProbeIdentifies(p) \/ Publish(p) \/ RequestProbe(p)

----------------------------------------------------------------------------
(* Scans and transfers: begun while an account is shown, they ask for the  *)
(* drives, and have the probe repeated if there is no login.               *)
WorkBegins ==
  /\ probes.shown # None /\ Goes("work", "idle", "cache") /\ Event
  /\ UNCHANGED <<tokenVars, driveInfo, refreshMu, loginVars, probeVars, historyVars>>

WorkEnds ==
  /\ call["work"].at \in {"have", "failed"}
  /\ call' = [call EXCEPT !["work"] = Idle]
  /\ UNCHANGED <<tokenVars, driveInfo, refreshMu, loginVars, probeVars, events, historyVars>>

Work ==
  \/ Request("work") \/ WorkEnds \/ RequestProbe("work")
  \/ Invalidate("work", "unlinked", "request") /\ UNCHANGED <<events, historyVars>>

----------------------------------------------------------------------------
(* Scan-code login.                                                        *)
\* setFailure, which leaves a successful login alone.
Aborted(s) == [q \in Session |-> IF q = s /\ session[q] # "done" THEN "failed" ELSE session[q]]

\* StartLogin: the previous session is aborted before the link is asked for.
StartLogin ==
  /\ \/ \E s \in Session :
          /\ session[s] = "new" /\ \A q \in 1..(s - 1) : session[q] # "new"
          /\ login' = s
          /\ session' = [Aborted(login) EXCEPT ![s] = "waiting"]
     \/ login # 0 /\ login' = 0 /\ session' = Aborted(login)
  /\ Event
  /\ UNCHANGED <<tokenVars, driveInfo, refreshMu, call, confirming, probeVars, historyVars>>

CancelLogin ==
  /\ login # 0 /\ login' = 0 /\ session' = Aborted(login)
  /\ UNCHANGED <<tokenVars, driveInfo, refreshMu, call, confirming, probeVars, events,
                 historyVars>>

\* LoginLinkTTL: the goroutine of StartLogin.
LinkExpires(s) ==
  /\ session[s] \in {"waiting", "finishing"} /\ session' = Aborted(s)
  /\ UNCHANGED <<tokenVars, driveInfo, refreshMu, call, login, confirming, probeVars, events,
                 historyVars>>

\* One at a time: two ConfirmLogin of different sessions, both in flight, are left out.
BeginConfirmation ==
  /\ login # 0 /\ session[login] = "waiting"
  /\ Goes("login", "idle", "tokens")
  /\ session' = [session EXCEPT ![login] = "finishing"] /\ confirming' = login
  /\ UNCHANGED <<tokenVars, driveInfo, refreshMu, login, probeVars, events, historyVars>>

\* The token service answers with the tokens of whoever scanned the code.
TokensArrive ==
  /\ call["login"].at = "tokens"
  /\ \/ /\ Len(issued) < MaxTokens
        /\ \E a \in Accounts : issued' = Append(issued, a)
        /\ call' = [call EXCEPT !["login"] = [Idle EXCEPT !.at = "set", !.token = Len(issued')]]
        /\ UNCHANGED events /\ UNCHANGED session
     \/ /\ call' = [call EXCEPT !["login"] = Idle] /\ session' = Aborted(confirming)
        /\ Event /\ UNCHANGED issued
  /\ UNCHANGED <<credentials, stored, unsaved, expired, driveInfo, refreshMu, login, confirming,
                 probeVars, historyVars>>

\* setCredentials, before Who checks them.
SetTokens ==
  /\ call["login"].at = "set" /\ refreshMu = None
  /\ call' = [call EXCEPT !["login"] = [Idle EXCEPT !.at = "cache"]]
  /\ credentials' = [token |-> call["login"].token, user |-> None] /\ driveInfo' = None
  /\ loggedOut' = FALSE
  /\ UNCHANGED <<stored, unsaved, issued, expired, refreshMu, loginVars, probeVars, events,
                 stray>>

LoginIdentifies ==
  Identify("login", [Idle EXCEPT !.at = "named", !.info = call["login"].info])

\* The identity is set once more, without refreshMu, and written.
NameAccount ==
  /\ call["login"].at = "named"
  /\ credentials' = [credentials EXCEPT !.user = call["login"].info]
  /\ \E ok \in BOOLEAN :
       /\ Persist(ok)
       /\ session' = IF ok THEN [session EXCEPT ![confirming] = "done"] ELSE Aborted(confirming)
       /\ call' = [call EXCEPT !["login"] = [Idle EXCEPT !.at = IF ok THEN "invalidate" ELSE "idle"]]
  /\ UNCHANGED <<issued, expired, driveInfo, refreshMu, login, confirming, probeVars, historyVars>>

\* Who failed: the credentials are emptied in memory, not in the file.
LoginFails ==
  /\ call["login"].at \in {"unlinked", "failed"} /\ refreshMu = None
  /\ call' = [call EXCEPT !["login"] = Idle]
  /\ credentials' = NoCredentials /\ driveInfo' = None
  /\ session' = Aborted(confirming)
  /\ UNCHANGED <<stored, unsaved, issued, expired, refreshMu, login, confirming, probeVars,
                 events, historyVars>>

ConfirmLogin ==
  \/ TokensArrive \/ SetTokens \/ Request("login") \/ LoginIdentifies \/ NameAccount \/ LoginFails
  \/ Invalidate("login", "invalidate", "request") /\ UNCHANGED <<events, historyVars>>
  \/ RequestProbe("login")

----------------------------------------------------------------------------
\* Logout: the probe is invalidated before and after the account is cleared.
LogoutBegins ==
  /\ Event /\ Goes("logout", "idle", "clear")
  /\ Invalidated
  /\ login' = 0 /\ session' = Aborted(login)
  /\ UNCHANGED <<tokenVars, driveInfo, refreshMu, confirming, historyVars>>

\* Mutant: credentialsMu alone guards the clearing.
ClearAtOnce == TRUE
\* refreshMu keeps a refresh that is on its way from putting a token back.
MayClear == refreshMu = None

ClearCredentials ==
  /\ MayClear /\ Goes("logout", "clear", "invalidate")
  /\ credentials' = NoCredentials /\ driveInfo' = None
  /\ \E ok \in BOOLEAN : Persist(ok)
  /\ loggedOut' = TRUE
  /\ stray' = \E c \in Callers : call[c].at = "sent"
  /\ UNCHANGED <<issued, expired, refreshMu, loginVars, probeVars>>

Logout ==
  \/ LogoutBegins \/ ClearCredentials \/ RequestProbe("logout")
  \/ Invalidate("logout", "invalidate", "request") /\ UNCHANGED <<events, historyVars>>

\* RefreshProbe, the button of the page.
RefreshProbe ==
  \/ Event /\ Invalidate("page", "idle", "request") /\ UNCHANGED historyVars
  \/ RequestProbe("page")

----------------------------------------------------------------------------
Expire == \E t \in 1..Len(issued) :
  /\ Event /\ t \notin expired
  /\ expired' = expired \cup {t}
  /\ UNCHANGED <<credentials, stored, unsaved, issued, driveInfo, refreshMu, call, loginVars,
                 probeVars, historyVars>>

\* driveInfoCacheTTL.
CacheExpires ==
  /\ driveInfo # None /\ driveInfo' = None
  /\ UNCHANGED <<tokenVars, refreshMu, call, loginVars, probeVars, events, historyVars>>

\* The process dies; New reads the file and Run launches the first probe.
Restart ==
  /\ Event
  /\ credentials' = IF stored.token = 0 THEN NoCredentials ELSE stored
  /\ unsaved' = FALSE /\ driveInfo' = None /\ refreshMu' = None
  /\ session' = [s \in Session |-> IF session[s] \in {"waiting", "finishing"} THEN "failed"
                                   ELSE session[s]]
  /\ login' = 0 /\ confirming' = 0
  /\ probes' = [shown |-> None, refreshing |-> TRUE, rerun |-> FALSE] /\ outdated' = {}
  /\ call' = [[c \in Callers |-> Idle] EXCEPT ![CHOOSE p \in Probers : TRUE].at = "cache"]
  /\ loggedOut' = (loggedOut /\ stored.token = 0)
  /\ UNCHANGED <<stored, issued, expired, stray>>

Next ==
  \/ \E p \in Probers : Probe(p)
  \/ WorkBegins \/ Work \/ ConfirmLogin \/ Logout \/ RefreshProbe \/ Poll
  \/ StartLogin \/ CancelLogin \/ BeginConfirmation \/ \E s \in Session : LinkExpires(s)
  \/ Expire \/ CacheExpires \/ Restart

Spec == Init /\ [][Next]_vars

\* Requests end, somebody keeps the page open, and cached answers grow old.  A
\* page does not forever come between a discarded result and the probe after it.
FairSpec ==
  /\ Spec
  /\ \A p \in Probers : WF_vars(Probe(p))
  /\ WF_vars(Work) /\ WF_vars(ConfirmLogin)
  /\ WF_vars(Logout /\ call["logout"].at # "idle")
  /\ WF_vars(RefreshProbe /\ call["page"].at # "idle")
  /\ WF_vars(Poll) /\ WF_vars(CacheExpires)
  /\ SF_vars(~probes.refreshing /\ \E p \in Probers : RequestProbe(p))

----------------------------------------------------------------------------
\* A token is only exchanged when the service refuses it, however many requests
\* meet the refusal at once (requestJSON, refreshAccessToken): an exchange of a
\* token somebody has just renewed would spend the new one.
RefreshOnlyExpired == \A c \in Callers : call[c].at = "exchange" => call[c].token \in expired

\* After Logout has invalidated the probe for the second time, no probe makes the
\* scheduler believe the account is still linked (comment in Engine.Logout).
LoggedOutIsShown == loggedOut /\ call["logout"].at \in {"idle", "request"} => probes.shown = None

\* Once an account is cleared no token comes back without a login, though a
\* refresh was on its way (clearCredentials); and the account is not shown as
\* linked again.  Left out of the second part: an answer that was on its way when
\* the credentials were cleared, which is cached and believed.  Left out of both: a
\* login that was being confirmed (DiscardsLogin), and a logout whose write of the file
\* failed, once the process starts again and reads the file.
LogoutHolds ==
  /\ loggedOut => credentials.token = 0
  /\ ~stray => LoggedOutIsShown

\* "CancelLogin discards an in-flight login" (actions.go:45): the tokens of a session
\* that is no longer the present one do not become the account's.
DiscardsLogin ==
  [][call["login"].at = "set" /\ credentials'.token = call["login"].token
       => login = confirming]_vars

\* The account the scheduler works with, the credentials and the file come to
\* agree, whatever logins, logouts and refreshes overlapped; no flag of the probe
\* is left standing.  Left out: a token that expired under another account's id, and
\* the file of an account that memory does not have, after a login that failed or a
\* logout whose write did.
Stranded == credentials.token \in expired /\ credentials.user # Owner(credentials.token)
Agreed ==
  /\ probes.shown = Owner(credentials.token)
  /\ credentials.token # 0 =>
       credentials.user = Owner(credentials.token) /\ (unsaved \/ stored = credentials)
AccountSettles == <>[](Stranded \/ Agreed)
=============================================================================
