---------------------------- MODULE TokenRefresh ----------------------------
(***************************************************************************)
(* How the web console renews its session.  Several browser tabs share the *)
(* local storage (the token pair, the sign that a tab is renewing it, the  *)
(* time of the sign); every tab has calls in progress; a call answered 401 *)
(* renews the pair itself or waits for whoever does, and is sent once      *)
(* more.  src/web/service/refresh-token.ts, request and ssePost of         *)
(* src/web/service/base.ts, and refresh_token of                           *)
(* src/api/services/account_service.py, which rotates the refresh token.   *)
(*                                                                         *)
(* A token pair is the number the server issued it under.  Times are kept  *)
(* as ages, which is all the code compares; a timer fires at its time or   *)
(* later.                                                                  *)
(***************************************************************************)
EXTENDS Naturals, FiniteSets

CONSTANTS
  Tabs, Calls, TabOf,   \* the browser tabs, the calls and the tab of each call
  Streams,              \* the calls made by ssePost; the others are made by request
  MayLeave,             \* bound: the tabs the user may close, or that may die
  Timeout,              \* TIME_OUT of base.ts
  MaxPairs              \* bound: the pairs the server issues

ASSUME TabsAssumption == TabOf \in [Calls -> Tabs] /\ Streams \subseteq Calls /\ MayLeave \subseteq Tabs
ASSUME BoundsAssumption == Timeout \in Nat /\ MaxPairs \in Nat \ {0}

VARIABLES
  sign, signAge,  \* is_other_tab_refreshing, and how long ago last_refresh_time is
  stored,         \* the pair in console_token and refresh_token
  isRefreshing,   \* the flag of each tab
  page,           \* what a tab shows: the console, the sign-in page, or it is gone
  pc,             \* where each call is
  used,           \* the pair a call was last sent with, 0 before
  timer,          \* the timer of a call's race: armed, and for how long
  ask,            \* the POST /refresh-token of a call: how far it is, the token it
                  \* carries, and whether the tab that sent it still listens
  issued, live,   \* the server: how many pairs it issued, the refresh tokens it takes,
  expired,        \* and the pairs whose access token has run out
  mishap          \* history: the lock was given away or given up early ("astray"), two
                  \* requests to renew were out at once, the answer to one was lost

vars == <<sign, signAge, stored, isRefreshing, page, pc, used, timer, ask,
          issued, live, expired, mishap>>
lock == <<sign, signAge, isRefreshing>>
server == <<issued, live, expired>>

Pairs == 1..MaxPairs
NoAsk == [st |-> "none", tok |-> 0, home |-> FALSE]
NoTimer == [on |-> FALSE, age |-> 0]
Settled == {"done", "failed", "silent", "aborted"}

TypeOK ==
  /\ sign \in BOOLEAN
  /\ signAge \in 0..(Timeout + 1)
  /\ stored \in Pairs
  /\ isRefreshing \in [Tabs -> BOOLEAN]
  /\ page \in [Tabs -> {"console", "signin", "gone"}]
  /\ pc \in [Calls -> {"idle", "sent", "checked", "asking", "waiting"} \cup Settled]
  /\ used \in [Calls -> 0..MaxPairs]
  /\ timer \in [Calls -> [on : BOOLEAN, age : 0..Timeout]]
  /\ ask \in [Calls -> [st : {"none", "sent", "found", "granted", "rejected"},
                        tok : 0..MaxPairs, home : BOOLEAN]]
  /\ issued \in Pairs
  /\ live \subseteq Pairs
  /\ expired \subseteq Pairs
  /\ mishap \subseteq {"astray", "lost", "overlap"}

(* The user is signed in with the first pair, whose access token has run out. *)
Init ==
  /\ sign = FALSE /\ signAge = 0
  /\ stored = 1 /\ issued = 1 /\ live = {1} /\ expired = {1}
  /\ isRefreshing = [t \in Tabs |-> FALSE]
  /\ page = [t \in Tabs |-> "console"]
  /\ pc = [c \in Calls |-> "idle"]
  /\ used = [c \in Calls |-> 0]
  /\ timer = [c \in Calls |-> NoTimer]
  /\ ask = [c \in Calls |-> NoAsk]
  /\ mishap = {}

-----------------------------------------------------------------------------
(* Requests to renew that have been sent and whose answer nobody has read. *)
InFlight == {c \in Calls : ask[c].st # "none"}

Of(t) == {c \in Calls : TabOf[c] = t}

(* A tab runs one task at a time: while a call of it is between looking at  *)
(* the sign and writing it, nothing else of the tab runs.                   *)
Free(t) == page[t] = "console" /\ \A c \in Of(t) : pc[c] # "checked"

(* isRefreshingSignAvailable *)
SignIsFresh == signAge <= Timeout

(* releaseRefreshLock in tab t: whatever it holds, whoever took it *)
Released(t) ==
  IF isRefreshing[t]
  THEN /\ isRefreshing' = [isRefreshing EXCEPT ![t] = FALSE]
       /\ sign' = FALSE
       /\ signAge' = 0
  ELSE UNCHANGED lock

(* Tab t goes to another page: its timers end, its calls are given up (the  *)
(* set failing: they have been told so) and its requests find nobody.       *)
Left(t, to, failing, asks) ==
  /\ page' = [page EXCEPT ![t] = to]
  /\ pc' = [c \in Calls |->
              IF c \in failing THEN "failed"
              ELSE IF c \in Of(t) /\ pc[c] \notin Settled \cup {"idle"} THEN "aborted"
              ELSE pc[c]]
  /\ timer' = [c \in Calls |-> IF c \in Of(t) THEN NoTimer ELSE timer[c]]
  /\ ask' = [c \in Calls |->
               IF c \notin Of(t) THEN asks[c]
               ELSE IF asks[c].st \in {"granted", "rejected"} THEN NoAsk
               ELSE [asks[c] EXCEPT !.home = FALSE]]

LeftBehind(t, asks) ==
  (IF \E c \in Of(t) : asks[c].st # "none" THEN {"astray"} ELSE {})
    \cup (IF \E c \in Of(t) : asks[c].st = "granted" THEN {"lost"} ELSE {})

-----------------------------------------------------------------------------
(* A call is sent with the stored access token. *)
Send(c) ==
  /\ pc[c] = "idle" /\ Free(TabOf[c])
  /\ pc' = [pc EXCEPT ![c] = "sent"]
  /\ used' = [used EXCEPT ![c] = stored]
  /\ UNCHANGED <<lock, stored, page, timer, ask, server, mishap>>

Served(c) ==
  /\ pc[c] = "sent" /\ Free(TabOf[c]) /\ used[c] \notin expired
  /\ pc' = [pc EXCEPT ![c] = "done"]
  /\ UNCHANGED <<lock, stored, used, page, timer, ask, server, mishap>>

\* Mutant of Refused: only the call that renews has a timer.
RefusedWithoutTimer(c) ==
  LET waits == (sign /\ SignIsFresh) \/ isRefreshing[TabOf[c]] IN
  /\ pc[c] = "sent" /\ Free(TabOf[c]) /\ used[c] \in expired
  /\ timer' = IF waits THEN timer ELSE [timer EXCEPT ![c] = [on |-> TRUE, age |-> 0]]
  /\ pc' = [pc EXCEPT ![c] = IF waits THEN "waiting" ELSE "checked"]
  /\ mishap' = IF sign /\ ~waits THEN mishap \cup {"astray"} ELSE mishap
  /\ UNCHANGED <<lock, stored, used, page, ask, server>>

(* It is answered 401: refreshAccessTokenOrRelogin arms the timer and       *)
(* getNewAccessToken looks at the sign and the flag.                        *)
Refused(c) ==
  LET waits == (sign /\ SignIsFresh) \/ isRefreshing[TabOf[c]] IN
  /\ pc[c] = "sent" /\ Free(TabOf[c]) /\ used[c] \in expired
  /\ timer' = [timer EXCEPT ![c] = [on |-> TRUE, age |-> 0]]
  /\ pc' = [pc EXCEPT ![c] = IF waits THEN "waiting" ELSE "checked"]
  /\ mishap' = IF sign /\ ~waits THEN mishap \cup {"astray"} ELSE mishap
  /\ UNCHANGED <<lock, stored, used, page, ask, server>>

\* Mutant of Take: the sign is not written, the flag of the tab has to do.
TakeUnsigned(c) ==
  /\ pc[c] = "checked"
  /\ pc' = [pc EXCEPT ![c] = "asking"]
  /\ isRefreshing' = [isRefreshing EXCEPT ![TabOf[c]] = TRUE]
  /\ UNCHANGED <<sign, signAge>>
  /\ ask' = [ask EXCEPT ![c] = [st |-> "sent", tok |-> stored, home |-> TRUE]]
  /\ mishap' = mishap \cup (IF \E d \in Calls \ {c} : pc[d] = "checked" THEN {"astray"} ELSE {})
                      \cup (IF InFlight # {} THEN {"overlap"} ELSE {})
  /\ UNCHANGED <<stored, used, page, timer, server>>

\* Mutant of Take: it sends the token the call was made with.
TakeOldToken(c) ==
  /\ pc[c] = "checked"
  /\ pc' = [pc EXCEPT ![c] = "asking"]
  /\ isRefreshing' = [isRefreshing EXCEPT ![TabOf[c]] = TRUE]
  /\ sign' = TRUE
  /\ signAge' = 0
  /\ ask' = [ask EXCEPT ![c] = [st |-> "sent", tok |-> used[c], home |-> TRUE]]
  /\ mishap' = mishap \cup (IF \E d \in Calls \ {c} : pc[d] = "checked" THEN {"astray"} ELSE {})
                      \cup (IF InFlight # {} THEN {"overlap"} ELSE {})
  /\ UNCHANGED <<stored, used, page, timer, server>>

(* It takes the lock, reads the refresh token and sends it.  Two tabs may   *)
(* have looked before either wrote: local storage has no compare-and-set.   *)
Take(c) ==
  /\ pc[c] = "checked"
  /\ pc' = [pc EXCEPT ![c] = "asking"]
  /\ isRefreshing' = [isRefreshing EXCEPT ![TabOf[c]] = TRUE]
  /\ sign' = TRUE
  /\ signAge' = 0
  /\ ask' = [ask EXCEPT ![c] = [st |-> "sent", tok |-> stored, home |-> TRUE]]
  /\ mishap' = mishap \cup (IF \E d \in Calls \ {c} : pc[d] = "checked" THEN {"astray"} ELSE {})
                      \cup (IF InFlight # {} THEN {"overlap"} ELSE {})
  /\ UNCHANGED <<stored, used, page, timer, server>>

(* AccountService.refresh_token looks the token up ... *)
Lookup(c) ==
  /\ ask[c].st = "sent"
  /\ ask' = [ask EXCEPT ![c] =
               IF @.tok \in live THEN [@ EXCEPT !.st = "found"]
               ELSE IF @.home THEN [@ EXCEPT !.st = "rejected"] ELSE NoAsk]
  /\ UNCHANGED <<lock, stored, page, pc, used, timer, server, mishap>>

(* ... deletes it and stores a new one; the answer may find nobody. *)
Rotate(c) ==
  /\ ask[c].st = "found" /\ issued < MaxPairs
  /\ issued' = issued + 1
  /\ live' = (live \ {ask[c].tok}) \cup {issued + 1}
  /\ ask' = [ask EXCEPT ![c] =
               IF @.home THEN [@ EXCEPT !.st = "granted", !.tok = issued + 1] ELSE NoAsk]
  /\ mishap' = IF ask[c].home THEN mishap ELSE mishap \cup {"lost"}
  /\ UNCHANGED <<lock, stored, page, pc, used, timer, expired>>

-----------------------------------------------------------------------------
(* refreshAccessTokenOrRelogin resolves for a call that still waits for it: *)
(* request sends the call once more and hands over whatever is answered,    *)
(* ssePost starts anew.                                                     *)
Resumed(c, pair) ==
  IF pc[c] \in {"asking", "waiting"}
  THEN /\ used' = [used EXCEPT ![c] = pair]
       /\ pc' = [pc EXCEPT ![c] = IF c \in Streams THEN "sent"
                                  ELSE IF pair \in expired THEN "failed" ELSE "done"]
  ELSE UNCHANGED <<used, pc>>

(* It rejects: ssePost tells nobody, request goes to the sign-in page. *)
GivenUp(c, asks, why) ==
  LET t == TabOf[c] IN
  /\ Released(t)
  /\ UNCHANGED used
  /\ IF c \in Streams
     THEN /\ pc' = [pc EXCEPT ![c] = IF @ \in {"asking", "waiting"} THEN "silent" ELSE @]
          /\ ask' = asks
          /\ mishap' = mishap \cup why
          /\ UNCHANGED page
     ELSE /\ Left(t, "signin", {c}, asks)
          /\ mishap' = mishap \cup why \cup LeftBehind(t, asks)

\* Mutant of Renewed: the new refresh token is not stored.
RenewedHalf(c) ==
  /\ ask[c].st = "granted" /\ Free(TabOf[c])
  /\ UNCHANGED stored
  /\ Resumed(c, ask[c].tok)
  /\ ask' = [ask EXCEPT ![c] = NoAsk]
  /\ Released(TabOf[c])
  /\ UNCHANGED <<page, timer, server, mishap>>

(* The answer comes: the pair is stored and the lock released. *)
Renewed(c) ==
  /\ ask[c].st = "granted" /\ Free(TabOf[c])
  /\ stored' = ask[c].tok
  /\ Resumed(c, ask[c].tok)
  /\ ask' = [ask EXCEPT ![c] = NoAsk]
  /\ Released(TabOf[c])
  /\ UNCHANGED <<page, timer, server, mishap>>

(* The answer is 401. *)
Rejected(c) ==
  /\ ask[c].st = "rejected" /\ Free(TabOf[c])
  /\ GivenUp(c, [ask EXCEPT ![c] = NoAsk], {"astray"})
  /\ (c \in Streams => UNCHANGED timer)
  /\ UNCHANGED <<stored, server>>

(* The network fails; fetchWithRetry only looks at the same promise again.  *)
(* The request may be on its way, or its answer may be what is lost.        *)
Broken(c) ==
  /\ ask[c].home /\ ask[c].st \in {"sent", "found", "granted"} /\ Free(TabOf[c])
  /\ \E gone \in {NoAsk, [ask[c] EXCEPT !.home = FALSE]} :
       /\ gone = NoAsk \/ ask[c].st # "granted"
       /\ gone # NoAsk \/ ask[c].st # "found"
       /\ GivenUp(c, [ask EXCEPT ![c] = gone],
                  {"astray"} \cup IF ask[c].st = "granted" THEN {"lost"} ELSE {})
  /\ (c \in Streams => UNCHANGED timer)
  /\ UNCHANGED <<stored, server>>

(* A waiting call finds the sign taken down and its tab at rest. *)
WaitOver(c) ==
  /\ pc[c] = "waiting" /\ Free(TabOf[c])
  /\ ~sign /\ ~isRefreshing[TabOf[c]]
  /\ Resumed(c, stored)
  /\ UNCHANGED <<lock, stored, page, timer, ask, server, mishap>>

(* The timer of the race fires, also long after the race was decided: it    *)
(* releases whatever lock the tab holds by then.                            *)
TimerFires(c) ==
  LET t == TabOf[c]
      waits == pc[c] \in {"asking", "waiting"}
      early == isRefreshing[t] /\ \E d \in Of(t) : ask[d].home
      why == IF waits \/ early THEN {"astray"} ELSE {} IN
  /\ timer[c].on /\ timer[c].age = Timeout /\ Free(t)
  /\ IF waits
     THEN /\ GivenUp(c, ask, why)
          /\ (c \in Streams => timer' = [timer EXCEPT ![c] = NoTimer])
     ELSE /\ Released(t)
          /\ timer' = [timer EXCEPT ![c] = NoTimer]
          /\ mishap' = mishap \cup why
          /\ UNCHANGED <<pc, used, page, ask>>
  /\ UNCHANGED <<stored, server>>

-----------------------------------------------------------------------------
(* The user leaves the console in a tab (beforeunload gives the lock back), *)
(* or the tab dies with the lock.                                           *)
Close(t) ==
  /\ t \in MayLeave /\ Free(t)
  /\ Left(t, "gone", {}, ask)
  /\ Released(t)
  /\ mishap' = mishap \cup LeftBehind(t, ask)
  /\ UNCHANGED <<stored, used, server>>

Dies(t) ==
  /\ t \in MayLeave /\ page[t] = "console"
  /\ Left(t, "gone", {}, ask)
  /\ isRefreshing' = [isRefreshing EXCEPT ![t] = FALSE]
  /\ mishap' = mishap \cup LeftBehind(t, ask)
  /\ UNCHANGED <<sign, signAge, stored, used, server>>

(* The user signs in again: AccountService.login issues a pair. *)
SignIn(t) ==
  /\ page[t] = "signin" /\ issued < MaxPairs
  /\ page' = [page EXCEPT ![t] = "console"]
  /\ issued' = issued + 1
  /\ live' = live \cup {issued + 1}
  /\ stored' = issued + 1
  /\ UNCHANGED <<lock, pc, used, timer, ask, expired, mishap>>

(* The access tokens issued so far run out. *)
Expire ==
  /\ issued \notin expired /\ issued < MaxPairs
  /\ expired' = 1..issued
  /\ UNCHANGED <<lock, stored, page, pc, used, timer, ask, issued, live, mishap>>

(* Time passes; ages beyond what is compared are all one. *)
Tick ==
  /\ (sign /\ signAge <= Timeout) \/ \E c \in Calls : timer[c].on /\ timer[c].age < Timeout
  /\ signAge' = IF sign /\ signAge <= Timeout THEN signAge + 1 ELSE signAge
  /\ timer' = [c \in Calls |-> IF timer[c].on /\ timer[c].age < Timeout
                               THEN [timer[c] EXCEPT !.age = @ + 1] ELSE timer[c]]
  /\ UNCHANGED <<sign, stored, isRefreshing, page, pc, used, ask, server, mishap>>

Answered(c) == Served(c) \/ Refused(c)
Goes(c) == Take(c) \/ Renewed(c) \/ Rejected(c) \/ WaitOver(c) \/ TimerFires(c)

Next ==
  \/ \E c \in Calls : Send(c) \/ Answered(c) \/ Goes(c) \/ Lookup(c) \/ Rotate(c) \/ Broken(c)
  \/ \E t \in Tabs : Close(t) \/ Dies(t) \/ SignIn(t)
  \/ Expire \/ Tick

Spec == Init /\ [][Next]_vars

(* A tab runs its tasks, time passes, and calls of the console are answered; *)
(* the request to renew need not be.                                         *)
FairSpec == Spec /\ WF_vars(Tick \/ \E c \in Calls : Answered(c) \/ Goes(c))

-----------------------------------------------------------------------------
(* Two requests to renew are out at the same time only after a sign that    *)
(* had become old, a timer, a tab that went away or a failed request gave   *)
(* the lock away, or two tabs looked at the sign at the same time: the      *)
(* waiting and releasing in refresh-token.ts lets no other case through.    *)
OverlapHasCause == "overlap" \in mishap => "astray" \in mishap

(* The lock is well formed and keeps requests to renew apart. *)
LockInv == TypeOK /\ OverlapHasCause

(* The server refuses a refresh token only when two requests were out at    *)
(* once or the answer to an earlier one was lost: whoever takes the lock    *)
(* reads the token the holder before it has stored.                         *)
RefusedOnlyAfterOverlap ==
  \A c \in Calls : ask[c].st = "rejected" => mishap \cap {"overlap", "lost"} # {}

(* When no request to renew is out, the stored refresh token is one the     *)
(* server takes: late answers, stolen locks, refused requests and new       *)
(* sign-ins leave a usable pair, unless an answer was lost on the way.      *)
StoredPairUsable == InFlight = {} /\ "lost" \notin mishap => stored \in live

(* Every call comes to an end, whoever of the others dies with the lock and *)
(* whether or not the server ever answers a request to renew.               *)
EveryCallSettles == <>[](\A c \in Calls : pc[c] \in Settled \cup {"idle"})
=============================================================================
