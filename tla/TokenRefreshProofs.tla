-------------------------- MODULE TokenRefreshProofs --------------------------
(***************************************************************************)
(* Theorems about TokenRefresh: with any number of tabs and calls, whoever *)
(* dies or is late, two requests to renew are out at once only after a     *)
(* cause that is named, the server refuses a token only after that or a    *)
(* lost answer, and the stored pair stays usable.                          *)
(***************************************************************************)
EXTENDS TokenRefresh, TLAPS

Asks == [st : {"none", "sent", "found", "granted", "rejected"}, tok : 0..MaxPairs, home : BOOLEAN]

(* The server issues pairs in order, and a granted one is nobody else's yet. *)
Tokens ==
  /\ stored <= issued
  /\ live \subseteq 1..issued
  /\ \A c \in Calls : ask[c].tok <= issued
  /\ \A c \in Calls : ask[c].st = "granted" =>
       /\ ask[c].tok \in live /\ ask[c].tok # stored
       /\ \A d \in Calls \ {c} : ask[d].tok # ask[c].tok

(* A call that has asked is not sent again before its answer is read. *)
Asked == {"asking"} \cup Settled
Waits == \A c \in InFlight : pc[c] \in Asked

(* The stored token is taken by the server, or its successor is on the way. *)
Usable == "lost" \notin mishap => stored \in live \/ \E c \in Calls : ask[c].st = "granted"

(* As long as requests do not overlap and no answer is lost, the only       *)
(* request that is out carries a token the server takes.                    *)
Orderly ==
  mishap \cap {"overlap", "lost"} = {} =>
    /\ \A c, d \in InFlight : c = d
    /\ \A c \in Calls : ask[c].st # "rejected" /\ (ask[c].st = "sent" => ask[c].tok \in live)

(* As long as the lock is not given away, the only request that is out      *)
(* holds the sign and the flag of its tab, and nobody is about to ask.      *)
LockHeld ==
  "astray" \notin mishap =>
    /\ \A c \in InFlight : ask[c].home /\ sign /\ isRefreshing[TabOf[c]]
    /\ \A c, d \in InFlight : c = d
    /\ \A t \in Tabs : isRefreshing[t] => InFlight \cap Of(t) # {}
    /\ (\E c \in Calls : pc[c] = "checked") => InFlight = {}

(* The inductive invariant *)
IInv == TypeOK /\ Waits /\ Tokens /\ Usable /\ Orderly /\ LockHeld /\ OverlapHasCause

-----------------------------------------------------------------------------
(* What the helpers of the actions do to the state *)

Stages == {"idle", "sent", "checked", "asking", "waiting"} \cup Settled
Pages == {"console", "signin", "gone"}
Mishaps == {"astray", "lost", "overlap"}
Timers == [on : BOOLEAN, age : 0..Timeout]

LockTypes == sign' \in BOOLEAN /\ signAge' \in 0..(Timeout + 1) /\ isRefreshing' \in [Tabs -> BOOLEAN]
PageTypes == page' \in [Tabs -> Pages] /\ pc' \in [Calls -> Stages] /\ timer' \in [Calls -> Timers]
NoneLooks == \A c \in Calls : pc'[c] = "checked" => pc[c] = "checked"
NoneGoesOn == \A c \in Calls : pc[c] \in Asked => pc'[c] \in Asked

(* From asks, requests to renew only come to their end. *)
Fewer(asks) ==
  /\ ask' \in [Calls -> Asks]
  /\ \A c \in Calls : ask'[c] \in {asks[c], NoAsk, [asks[c] EXCEPT !.home = FALSE]}

(* Tab t gives back the lock, if it has it. *)
GivenBack(t) ==
  /\ \A s \in Tabs : isRefreshing'[s] => isRefreshing[s]
  /\ \A s \in Tabs \ {t} : isRefreshing'[s] = isRefreshing[s]
  /\ ~isRefreshing[t] => sign' = sign

LEMMA Constants ==
    /\ Timeout \in Nat /\ 0 \in 0..Timeout /\ 0 \in 0..(Timeout + 1)
    /\ MaxPairs \in Nat /\ 0 \in 0..MaxPairs /\ Pairs \subseteq 0..MaxPairs /\ 1 \in Pairs
    /\ NoAsk \in Asks /\ NoTimer \in Timers
    /\ \A c \in Calls : TabOf[c] \in Tabs
<1>1. Timeout \in Nat /\ MaxPairs \in Nat /\ MaxPairs # 0
  BY BoundsAssumption
<1>2. 0 \in 0..Timeout /\ 0 \in 0..(Timeout + 1) /\ 0 \in 0..MaxPairs /\ 1 \in Pairs /\ Pairs \subseteq 0..MaxPairs
  BY <1>1 DEF Pairs
<1>. QED
  BY <1>1, <1>2, TabsAssumption DEF NoAsk, NoTimer, Asks, Timers

LEMMA ReleasedShape ==
    ASSUME TypeOK, NEW t \in Tabs, Released(t)
    PROVE  LockTypes /\ GivenBack(t)
BY Constants DEF TypeOK, Released, lock, LockTypes, GivenBack

LEMMA LeftShape ==
    ASSUME TypeOK, NEW t \in Tabs, NEW to \in Pages, NEW failing \in SUBSET Calls,
           NEW asks \in [Calls -> Asks], Left(t, to, failing, asks)
    PROVE  /\ PageTypes /\ NoneLooks /\ NoneGoesOn /\ Fewer(asks)
           /\ \A c \in Calls \ Of(t) : ask'[c] = asks[c]
           /\ (\E c \in Calls : asks[c].st = "granted" /\ ask'[c] # asks[c]) => "lost" \in LeftBehind(t, asks)
           /\ \A c \in Of(t) : asks[c].st # "none" => "astray" \in LeftBehind(t, asks)
           /\ \A c \in Of(t) : asks[c].st = "none" => ask'[c].st = "none"
<1>1. PageTypes
  BY Constants DEF TypeOK, Left, PageTypes, Pages, Stages, Timers, Settled
<1>2. NoneLooks /\ NoneGoesOn
  <2>1. ASSUME NEW c \in Calls PROVE pc'[c] \in {"failed", "aborted", pc[c]}
    BY DEF Left
  <2>. QED
    BY <2>1 DEF NoneLooks, NoneGoesOn, Asked, Settled
<1>3. ASSUME NEW c \in Calls
      PROVE  ask'[c] \in {asks[c], NoAsk, [asks[c] EXCEPT !.home = FALSE]} /\ ask'[c] \in Asks
  <2>1. [asks[c] EXCEPT !.home = FALSE] \in Asks /\ asks[c] \in Asks
    BY DEF Asks
  <2>. QED
    BY <2>1, Constants DEF Left
<1>4. ask' \in [Calls -> Asks]
  BY <1>3 DEF Left
<1>5. \A c \in Calls \ Of(t) : ask'[c] = asks[c]
  BY DEF Left
<1>6. (\E c \in Calls : asks[c].st = "granted" /\ ask'[c] # asks[c]) => "lost" \in LeftBehind(t, asks)
  BY <1>5 DEF LeftBehind, Of
<1>7. \A c \in Of(t) : asks[c].st # "none" => "astray" \in LeftBehind(t, asks)
  BY DEF LeftBehind
<1>8. ASSUME NEW c \in Of(t), asks[c].st = "none" PROVE ask'[c].st = "none"
  <2>1. c \in Calls /\ asks[c] \in Asks
    BY DEF Of
  <2>2. ask'[c] = [asks[c] EXCEPT !.home = FALSE]
    BY <1>8, <2>1 DEF Left
  <2>. QED
    BY <1>8, <2>1, <2>2 DEF Asks
<1>. QED
  BY <1>1, <1>2, <1>3, <1>4, <1>5, <1>6, <1>7, <1>8 DEF Fewer

LEMMA ResumedShape ==
    ASSUME TypeOK, NEW c \in Calls, NEW pair \in 0..MaxPairs, Resumed(c, pair)
    PROVE  /\ pc' \in [Calls -> Stages] /\ used' \in [Calls -> 0..MaxPairs] /\ NoneLooks
           /\ \A d \in Calls \ {c} : pc'[d] = pc[d]
<1>1. CASE pc[c] \in {"asking", "waiting"}
  <2>1. PICK next \in {"sent", "failed", "done"} : pc' = [pc EXCEPT ![c] = next]
    BY <1>1 DEF Resumed
  <2>2. used' = [used EXCEPT ![c] = pair]
    BY <1>1 DEF Resumed
  <2>. QED
    BY <2>1, <2>2 DEF TypeOK, Stages, Settled, NoneLooks
<1>2. CASE pc[c] \notin {"asking", "waiting"}
  BY <1>2 DEF TypeOK, Resumed, Stages, NoneLooks
<1>. QED
  BY <1>1, <1>2

LEMMA GivenUpShape ==
    ASSUME TypeOK, NEW c \in Calls, NEW asks \in [Calls -> Asks], NEW why \in SUBSET Mishaps,
           GivenUp(c, asks, why), c \in Streams => timer' \in [Calls -> Timers]
    PROVE  /\ LockTypes /\ PageTypes /\ used' = used /\ NoneLooks /\ NoneGoesOn /\ Fewer(asks)
           /\ mishap \cup why \subseteq mishap' /\ mishap' \subseteq Mishaps
           /\ "overlap" \in mishap' => "overlap" \in mishap \cup why
           /\ (\E d \in Calls : asks[d].st = "granted" /\ ask'[d] # asks[d]) => "lost" \in mishap'
<1>1. TabOf[c] \in Tabs
  BY Constants
<1>2. LockTypes /\ used' = used
  BY <1>1, ReleasedShape DEF GivenUp
<1>3. CASE c \in Streams
  <2>1. PageTypes /\ NoneLooks /\ NoneGoesOn
    BY <1>3 DEF TypeOK, GivenUp, PageTypes, NoneLooks, NoneGoesOn, Asked, Stages, Settled, Pages
  <2>2. ask' = asks /\ mishap' = mishap \cup why
    BY <1>3 DEF GivenUp
  <2>. QED
    BY <1>2, <2>1, <2>2 DEF Fewer, TypeOK, Mishaps
<1>4. CASE c \notin Streams
  <2>1. Left(TabOf[c], "signin", {c}, asks) /\ mishap' = mishap \cup why \cup LeftBehind(TabOf[c], asks)
    BY <1>4 DEF GivenUp
  <2>2. "signin" \in Pages /\ {c} \in SUBSET Calls
    BY DEF Pages
  <2>3. PageTypes /\ NoneLooks /\ NoneGoesOn /\ Fewer(asks)
    BY <1>1, <2>1, <2>2, LeftShape
  <2>4. (\E d \in Calls : asks[d].st = "granted" /\ ask'[d] # asks[d]) => "lost" \in LeftBehind(TabOf[c], asks)
    BY <1>1, <2>1, <2>2, LeftShape
  <2>5. LeftBehind(TabOf[c], asks) \subseteq {"astray", "lost"}
    BY DEF LeftBehind
  <2>. QED
    BY <1>2, <2>1, <2>3, <2>4, <2>5 DEF TypeOK, Mishaps
<1>. QED
  BY <1>3, <1>4

-----------------------------------------------------------------------------
(* What a step of the system does to the requests to renew and to the lock *)

(* Nothing that the lock or the tokens depend on *)
Still ==
  /\ UNCHANGED <<sign, isRefreshing, ask, stored, issued, live, mishap>>
  /\ NoneLooks /\ NoneGoesOn

(* Requests come to their end, and whoever loses the lock has a cause or    *)
(* had nothing out.                                                         *)
Withdraws ==
  /\ UNCHANGED <<stored, issued, live>> /\ NoneLooks /\ NoneGoesOn /\ Fewer(ask)
  /\ mishap \subseteq mishap'
  /\ "overlap" \in mishap' => "overlap" \in mishap
  /\ (\E c \in Calls : ask[c].st = "granted" /\ ask'[c] # ask[c]) => "lost" \in mishap'
  /\ \/ "astray" \in mishap'
     \/ \E t \in Tabs :
          /\ \A c \in InFlight : ask'[c] = ask[c] /\ (c \in Of(t) /\ isRefreshing[t] => ~ask[c].home)
          /\ \A c \in Calls \ InFlight : ask'[c].st = "none"
          /\ GivenBack(t)

LEMMA BrokenShape ==
    ASSUME TypeOK, NEW c \in Calls, Broken(c)
    PROVE  /\ Withdraws /\ LockTypes /\ PageTypes /\ used' = used /\ mishap' \subseteq Mishaps
           /\ UNCHANGED <<stored, server>>
<1>1. PICK gone \in {NoAsk, [ask[c] EXCEPT !.home = FALSE]} :
         /\ gone = NoAsk \/ ask[c].st # "granted"
         /\ gone # NoAsk \/ ask[c].st # "found"
         /\ GivenUp(c, [ask EXCEPT ![c] = gone],
                    {"astray"} \cup IF ask[c].st = "granted" THEN {"lost"} ELSE {})
  BY DEF Broken
<1> DEFINE why == {"astray"} \cup IF ask[c].st = "granted" THEN {"lost"} ELSE {}
           asks == [ask EXCEPT ![c] = gone]
<1>2. ask \in [Calls -> Asks] /\ gone \in Asks
  <2>1. ask \in [Calls -> Asks]
    BY DEF TypeOK, Asks
  <2>2. [ask[c] EXCEPT !.home = FALSE] \in Asks
    BY <2>1 DEF Asks
  <2>. QED
    BY <2>1, <2>2, Constants
<1>3. asks \in [Calls -> Asks] /\ why \in SUBSET Mishaps
  BY <1>2 DEF Mishaps
<1>4. c \in Streams => timer' \in [Calls -> Timers]
  BY DEF Broken, TypeOK, Timers
<1>5. GivenUp(c, asks, why)
  BY <1>1
<1>6. "astray" \in why /\ "overlap" \notin why /\ (ask[c].st = "granted" => "lost" \in why)
  OBVIOUS
<1> HIDE DEF why
<1>7. /\ LockTypes /\ PageTypes /\ used' = used /\ NoneLooks /\ NoneGoesOn /\ Fewer(asks)
      /\ mishap \cup why \subseteq mishap' /\ mishap' \subseteq Mishaps
      /\ "overlap" \in mishap' => "overlap" \in mishap \cup why
      /\ (\E d \in Calls : asks[d].st = "granted" /\ ask'[d] # asks[d]) => "lost" \in mishap'
  <2> HIDE DEF asks
  <2>. QED
    BY <1>3, <1>4, <1>5, GivenUpShape
<1>8. \A d \in Calls : d # c => asks[d] = ask[d]
  BY <1>2
<1>9. Fewer(ask)
  <2>1. ask'[c] \in {ask[c], NoAsk, [ask[c] EXCEPT !.home = FALSE]}
    <3>1. asks[c] = gone
      BY <1>2
    <3>2. ask'[c] \in {gone, NoAsk, [gone EXCEPT !.home = FALSE]}
      BY <1>7, <3>1 DEF Fewer
    <3>. QED
      BY <1>2, <3>2 DEF NoAsk, Asks
  <2>. QED
    BY <1>7, <1>8, <2>1 DEF Fewer
<1>10. (\E d \in Calls : ask[d].st = "granted" /\ ask'[d] # ask[d]) => "lost" \in mishap'
  BY <1>6, <1>7, <1>8
<1>11. UNCHANGED <<stored, server>>
  BY DEF Broken
<1>. QED
  BY <1>6, <1>7, <1>9, <1>10, <1>11 DEF Withdraws, server

LEMMA RejectedShape ==
    ASSUME TypeOK, NEW c \in Calls, Rejected(c)
    PROVE  /\ Withdraws /\ LockTypes /\ PageTypes /\ used' = used /\ mishap' \subseteq Mishaps
           /\ UNCHANGED <<stored, server>>
<1> DEFINE asks == [ask EXCEPT ![c] = NoAsk]
<1>1. ask \in [Calls -> Asks] /\ asks \in [Calls -> Asks] /\ {"astray"} \in SUBSET Mishaps
  BY Constants DEF TypeOK, Asks, Mishaps
<1>2. GivenUp(c, asks, {"astray"}) /\ (c \in Streams => timer' \in [Calls -> Timers]) /\ UNCHANGED <<stored, server>>
  BY DEF Rejected, TypeOK, Timers
<1>3. asks[c] = NoAsk /\ \A d \in Calls : d # c => asks[d] = ask[d]
  BY <1>1
<1> HIDE DEF asks
<1>4. /\ LockTypes /\ PageTypes /\ used' = used /\ NoneLooks /\ NoneGoesOn /\ Fewer(asks)
      /\ mishap \cup {"astray"} \subseteq mishap' /\ mishap' \subseteq Mishaps
      /\ "overlap" \in mishap' => "overlap" \in mishap \cup {"astray"}
      /\ (\E d \in Calls : asks[d].st = "granted" /\ ask'[d] # asks[d]) => "lost" \in mishap'
  BY <1>1, <1>2, GivenUpShape
<1>5. Fewer(ask)
  BY <1>3, <1>4 DEF Fewer, NoAsk
<1>6. (\E d \in Calls : ask[d].st = "granted" /\ ask'[d] # ask[d]) => "lost" \in mishap'
  BY <1>3, <1>4 DEF Rejected
<1>. QED
  BY <1>2, <1>4, <1>5, <1>6 DEF Withdraws, server

LEMMA TimerShape ==
    ASSUME TypeOK, NEW c \in Calls, TimerFires(c)
    PROVE  /\ Withdraws /\ LockTypes /\ PageTypes /\ used' = used /\ mishap' \subseteq Mishaps
           /\ UNCHANGED <<stored, server>>
<1> DEFINE t == TabOf[c]
           waits == pc[c] \in {"asking", "waiting"}
           early == isRefreshing[t] /\ \E d \in Of(t) : ask[d].home
           why == IF waits \/ early THEN {"astray"} ELSE {}
<1>1. ask \in [Calls -> Asks] /\ why \in SUBSET Mishaps /\ t \in Tabs
  BY Constants DEF TypeOK, Asks, Mishaps
<1>2. UNCHANGED <<stored, server>>
  BY DEF TimerFires
<1>3. CASE waits
  <2>1. GivenUp(c, ask, {"astray"}) /\ {"astray"} \in SUBSET Mishaps
    BY <1>3 DEF TimerFires, Mishaps
  <2>2. c \in Streams => timer' \in [Calls -> Timers]
    BY <1>3, Constants DEF TimerFires, TypeOK, Timers
  <2>3. /\ LockTypes /\ PageTypes /\ used' = used /\ NoneLooks /\ NoneGoesOn /\ Fewer(ask)
        /\ mishap \cup {"astray"} \subseteq mishap' /\ mishap' \subseteq Mishaps
        /\ "overlap" \in mishap' => "overlap" \in mishap \cup {"astray"}
        /\ (\E d \in Calls : ask[d].st = "granted" /\ ask'[d] # ask[d]) => "lost" \in mishap'
    BY <1>1, <2>1, <2>2, GivenUpShape
  <2>. QED
    BY <1>2, <2>3 DEF Withdraws, server
<1>4. CASE ~waits
  <2>1. /\ Released(t) /\ timer' = [timer EXCEPT ![c] = NoTimer] /\ UNCHANGED <<pc, used, page, ask>>
        /\ mishap' = mishap \cup IF early THEN {"astray"} ELSE {}
    BY <1>4 DEF TimerFires
  <2>2. LockTypes /\ GivenBack(t)
    BY <1>1, <2>1, ReleasedShape
  <2>3. PageTypes /\ NoneLooks /\ NoneGoesOn /\ Fewer(ask)
    BY <1>1, <2>1, Constants DEF TypeOK, PageTypes, NoneLooks, NoneGoesOn, Fewer, Timers, Stages, Pages
  <2>4. \/ "astray" \in mishap'
        \/ \A d \in InFlight : d \in Of(t) /\ isRefreshing[t] => ~ask[d].home
    BY <2>1
  <2>5. \A d \in Calls \ InFlight : ask'[d].st = "none"
    BY <2>1 DEF InFlight
  <2>6. \A d \in InFlight : ask'[d] = ask[d]
    BY <2>1
  <2>7. mishap \subseteq mishap' /\ mishap' \subseteq Mishaps /\ ("overlap" \in mishap' => "overlap" \in mishap)
    BY <2>1 DEF TypeOK, Mishaps
  <2>8. Withdraws
    <3> HIDE DEF t
    <3>. QED
      BY <1>1, <1>2, <2>1, <2>2, <2>3, <2>4, <2>5, <2>6, <2>7 DEF Withdraws, server
  <2>. QED
    BY <1>2, <2>1, <2>2, <2>3, <2>7, <2>8
<1>. QED
  BY <1>3, <1>4

(* A tab goes away, and tells the others or not. *)
LEMMA GoneShape ==
    ASSUME TypeOK, NEW t \in Tabs, Left(t, "gone", {}, ask), LockTypes, GivenBack(t),
           mishap' = mishap \cup LeftBehind(t, ask), UNCHANGED <<stored, used, server>>
    PROVE  Withdraws /\ PageTypes /\ mishap' \subseteq Mishaps
<1>1. ask \in [Calls -> Asks] /\ "gone" \in Pages /\ {} \in SUBSET Calls
  BY DEF TypeOK, Asks, Pages
<1>2. /\ PageTypes /\ NoneLooks /\ NoneGoesOn /\ Fewer(ask)
      /\ \A c \in Calls \ Of(t) : ask'[c] = ask[c]
      /\ (\E c \in Calls : ask[c].st = "granted" /\ ask'[c] # ask[c]) => "lost" \in LeftBehind(t, ask)
      /\ \A c \in Of(t) : ask[c].st # "none" => "astray" \in LeftBehind(t, ask)
      /\ \A c \in Of(t) : ask[c].st = "none" => ask'[c].st = "none"
  BY <1>1, LeftShape
<1>3. LeftBehind(t, ask) \subseteq {"astray", "lost"}
  BY DEF LeftBehind
<1>4. \/ "astray" \in mishap'
      \/ /\ \A c \in InFlight : ask'[c] = ask[c] /\ c \notin Of(t)
         /\ \A c \in Calls \ InFlight : ask'[c].st = "none"
  BY <1>2 DEF InFlight
<1>. QED
  BY <1>2, <1>3, <1>4 DEF Withdraws, TypeOK, Mishaps, server

LEMMA CloseShape ==
    ASSUME TypeOK, NEW t \in Tabs, Close(t)
    PROVE  /\ Withdraws /\ LockTypes /\ PageTypes /\ used' = used /\ mishap' \subseteq Mishaps
           /\ UNCHANGED <<stored, server>>
<1>1. /\ Left(t, "gone", {}, ask) /\ Released(t) /\ mishap' = mishap \cup LeftBehind(t, ask)
      /\ UNCHANGED <<stored, used, server>>
  BY DEF Close
<1>2. LockTypes /\ GivenBack(t)
  BY <1>1, ReleasedShape
<1>. QED
  BY <1>1, <1>2, GoneShape

LEMMA DiesShape ==
    ASSUME TypeOK, NEW t \in Tabs, Dies(t)
    PROVE  /\ Withdraws /\ LockTypes /\ PageTypes /\ used' = used /\ mishap' \subseteq Mishaps
           /\ UNCHANGED <<stored, server>>
<1>1. /\ Left(t, "gone", {}, ask) /\ isRefreshing' = [isRefreshing EXCEPT ![t] = FALSE]
      /\ mishap' = mishap \cup LeftBehind(t, ask) /\ UNCHANGED <<sign, signAge, stored, used, server>>
  BY DEF Dies
<1>2. LockTypes /\ GivenBack(t)
  BY <1>1 DEF TypeOK, LockTypes, GivenBack
<1>. QED
  BY <1>1, <1>2, GoneShape

(* A pair that was granted is one the server issued. *)
LEMMA GrantedPair ==
    ASSUME TypeOK, Tokens, NEW c \in Calls, ask[c].st = "granted"
    PROVE  ask[c].tok \in Pairs
BY DEF TypeOK, Tokens

LEMMA RenewedShape ==
    ASSUME TypeOK, Tokens, NEW c \in Calls, Renewed(c)
    PROVE  /\ TypeOK' /\ NoneLooks /\ GivenBack(TabOf[c])
           /\ ask[c].st = "granted" /\ stored' = ask[c].tok
           /\ ask' = [ask EXCEPT ![c] = NoAsk] /\ UNCHANGED <<issued, live, mishap>>
           /\ \A d \in Calls \ {c} : pc'[d] = pc[d]
<1>1. /\ ask[c].st = "granted" /\ stored' = ask[c].tok /\ Resumed(c, ask[c].tok)
      /\ ask' = [ask EXCEPT ![c] = NoAsk] /\ Released(TabOf[c])
      /\ UNCHANGED <<page, timer, server, mishap>>
  BY DEF Renewed
<1>2. TabOf[c] \in Tabs /\ ask[c].tok \in Pairs /\ ask[c].tok \in 0..MaxPairs
  BY <1>1, GrantedPair, Constants
<1>3. LockTypes /\ GivenBack(TabOf[c])
  BY <1>1, <1>2, ReleasedShape
<1>4. /\ pc' \in [Calls -> Stages] /\ used' \in [Calls -> 0..MaxPairs] /\ NoneLooks
      /\ \A d \in Calls \ {c} : pc'[d] = pc[d]
  BY <1>1, <1>2, ResumedShape
<1>5. ask \in [Calls -> Asks] /\ NoAsk \in Asks
  BY Constants DEF TypeOK, Asks
<1>6. ask' \in [Calls -> Asks]
  BY <1>1, <1>5
<1>7. TypeOK'
  BY <1>1, <1>2, <1>3, <1>4, <1>6 DEF TypeOK, LockTypes, Stages, Asks, server
<1>. QED
  BY <1>1, <1>3, <1>4, <1>7 DEF server

(* A step that withdraws requests keeps the types. *)
LEMMA WithdrawsTypes ==
    ASSUME TypeOK, Withdraws, LockTypes, PageTypes, used' = used, mishap' \subseteq Mishaps, UNCHANGED <<stored, server>>
    PROVE  TypeOK'
BY DEF TypeOK, Withdraws, LockTypes, PageTypes, Fewer, Asks, Timers, Stages, Pages, Mishaps, server

LEMMA StillStep ==
    ASSUME TypeOK,
           \/ \E c \in Calls : Send(c) \/ Served(c) \/ WaitOver(c)
           \/ Expire \/ Tick
           \/ UNCHANGED vars
    PROVE  TypeOK' /\ Still
<1>1. ASSUME NEW c \in Calls, Send(c) \/ Served(c) PROVE TypeOK' /\ Still
  <2>1. CASE Send(c)
    BY <2>1, Constants DEF Send, TypeOK, Still, lock, server, NoneLooks, NoneGoesOn, Asked, Settled
  <2>2. CASE Served(c)
    BY <2>2, Constants DEF Served, TypeOK, Still, lock, server, NoneLooks, NoneGoesOn, Asked, Settled
  <2>. QED
    BY <1>1, <2>1, <2>2
<1>2. ASSUME NEW c \in Calls, WaitOver(c) PROVE TypeOK' /\ Still
  <2>1. Resumed(c, stored) /\ UNCHANGED <<lock, stored, page, timer, ask, server, mishap>>
    BY <1>2 DEF WaitOver
  <2>2. stored \in 0..MaxPairs
    BY Constants DEF TypeOK
  <2>3. /\ pc' \in [Calls -> Stages] /\ used' \in [Calls -> 0..MaxPairs] /\ NoneLooks
        /\ \A d \in Calls \ {c} : pc'[d] = pc[d]
    BY <2>1, <2>2, ResumedShape
  <2>4. NoneGoesOn
    BY <1>2, <2>3 DEF NoneGoesOn, Asked, WaitOver, Settled
  <2>. QED
    BY <2>1, <2>3, <2>4 DEF TypeOK, Still, lock, server, Stages
<1>3. CASE Expire
  BY <1>3, Constants DEF Expire, TypeOK, Still, lock, NoneLooks, NoneGoesOn, Asked, Pairs
<1>4. CASE Tick
  <2>1. signAge' \in 0..(Timeout + 1)
    BY <1>4, Constants DEF Tick, TypeOK
  <2>2. timer' \in [Calls -> [on : BOOLEAN, age : 0..Timeout]]
    <3>1. ASSUME NEW c \in Calls, timer[c].age < Timeout
          PROVE  [timer[c] EXCEPT !.age = @ + 1] \in [on : BOOLEAN, age : 0..Timeout]
      BY <3>1, Constants DEF TypeOK
    <3>. QED
      BY <1>4, <3>1 DEF Tick, TypeOK
  <2>. QED
    BY <1>4, <2>1, <2>2 DEF Tick, TypeOK, Still, server, NoneLooks, NoneGoesOn, Asked
<1>5. CASE UNCHANGED vars
  BY <1>5 DEF vars, TypeOK, Still, server, NoneLooks, NoneGoesOn, Asked
<1>. QED
  BY <1>1, <1>2, <1>3, <1>4, <1>5

-----------------------------------------------------------------------------
(* Every kind of step keeps the inductive invariant. *)

LEMMA StillKeeps ==
    ASSUME IInv, TypeOK', Still
    PROVE  IInv'
<1>1. Tokens' /\ Usable' /\ Orderly'
  BY DEF IInv, Still, Tokens, Usable, Orderly, InFlight
<1>3. Waits'
  BY DEF IInv, Still, Waits, NoneGoesOn, InFlight
<1>2. LockHeld' /\ OverlapHasCause'
  BY DEF IInv, Still, LockHeld, OverlapHasCause, NoneLooks, InFlight, Of
<1>. QED
  BY <1>1, <1>2, <1>3 DEF IInv

(* What is left of a request that has been withdrawn *)
LEMMA FewerAsks ==
    ASSUME TypeOK, Fewer(ask), NEW c \in Calls
    PROVE  /\ ask'[c].tok \in {ask[c].tok, 0}
           /\ ask'[c].st \in {ask[c].st, "none"}
           /\ ask'[c].st # "none" => ask'[c].tok = ask[c].tok /\ ask'[c].st = ask[c].st /\ ask[c].st # "none"
<1>1. ask[c] \in Asks
  BY DEF TypeOK, Asks
<1>2. ask'[c] = ask[c] \/ ask'[c] = NoAsk \/ ask'[c] = [ask[c] EXCEPT !.home = FALSE]
  BY DEF Fewer
<1>. QED
  BY <1>1, <1>2 DEF NoAsk, Asks

LEMMA WithdrawsKeeps ==
    ASSUME IInv, TypeOK', Withdraws
    PROVE  IInv'
<1>1. TypeOK /\ Fewer(ask) /\ UNCHANGED <<stored, issued, live>> /\ mishap \subseteq mishap'
  BY DEF IInv, Withdraws
<1>2. \A c \in Calls :
        /\ ask'[c].tok \in {ask[c].tok, 0}
        /\ ask'[c].st \in {ask[c].st, "none"}
        /\ ask'[c].st # "none" => ask'[c].tok = ask[c].tok /\ ask'[c].st = ask[c].st /\ ask[c].st # "none"
  BY <1>1, FewerAsks
<1>3. InFlight' \subseteq InFlight
  BY <1>2 DEF InFlight
<1>4. Tokens'
  <2>1. Tokens /\ issued \in Nat
    BY BoundsAssumption DEF IInv, TypeOK, Pairs
  <2>2. \A c \in Calls : ask'[c].tok <= issued'
    BY <1>1, <1>2, <2>1 DEF Tokens
  <2>3. ASSUME NEW c \in Calls, ask'[c].st = "granted"
        PROVE  /\ ask'[c].tok \in live /\ ask'[c].tok # stored
               /\ \A d \in Calls \ {c} : ask'[d].tok # ask'[c].tok
    <3>1. ask[c].st = "granted" /\ ask'[c].tok = ask[c].tok
      BY <1>2, <2>3
    <3>2. ask[c].tok \in live /\ ask[c].tok # stored /\ ask[c].tok # 0
      BY <2>1, <3>1 DEF Tokens
    <3>3. \A d \in Calls \ {c} : ask[d].tok # ask[c].tok
      BY <2>1, <3>1 DEF Tokens
    <3>. QED
      BY <1>2, <3>1, <3>2, <3>3
  <2>. QED
    BY <1>1, <2>1, <2>2, <2>3 DEF Tokens
<1>5. Usable'
  <2>1. (\E c \in Calls : ask[c].st = "granted" /\ ask'[c] # ask[c]) => "lost" \in mishap'
    BY DEF Withdraws
  <2>2. Usable
    BY DEF IInv
  <2>. QED
    BY <1>1, <2>1, <2>2 DEF Usable
<1>6. Orderly'
  <2>1. Orderly
    BY DEF IInv
  <2>2. mishap' \cap {"overlap", "lost"} = {} => mishap \cap {"overlap", "lost"} = {}
    BY <1>1
  <2>. QED
    BY <1>1, <1>2, <1>3, <2>1, <2>2 DEF Orderly
<1>7. OverlapHasCause'
  BY <1>1 DEF IInv, Withdraws, OverlapHasCause
<1>8. LockHeld'
  <2> SUFFICES ASSUME "astray" \notin mishap' PROVE LockHeld'
    BY DEF LockHeld
  <2>1. /\ \A c \in InFlight : ask[c].home /\ sign /\ isRefreshing[TabOf[c]]
        /\ \A c, d \in InFlight : c = d
        /\ \A t \in Tabs : isRefreshing[t] => InFlight \cap Of(t) # {}
        /\ (\E c \in Calls : pc[c] = "checked") => InFlight = {}
    BY <1>1 DEF IInv, LockHeld
  <2>2. PICK t \in Tabs :
          /\ \A c \in InFlight : ask'[c] = ask[c] /\ (c \in Of(t) /\ isRefreshing[t] => ~ask[c].home)
          /\ \A c \in Calls \ InFlight : ask'[c].st = "none"
          /\ GivenBack(t)
    BY DEF Withdraws
  <2>3. InFlight' = InFlight
    BY <2>2 DEF InFlight
  <2>4. ~isRefreshing[t]
    BY <2>1, <2>2
  <2>5. isRefreshing' = isRefreshing
    BY <1>1, <2>2, <2>4 DEF GivenBack, TypeOK
  <2>6. sign' = sign
    BY <2>2, <2>4 DEF GivenBack
  <2>7. NoneLooks
    BY DEF Withdraws
  <2>. QED
    BY <2>1, <2>2, <2>3, <2>5, <2>6, <2>7 DEF LockHeld, NoneLooks, InFlight, Of
<1>9. Waits'
  <2>1. Waits /\ NoneGoesOn
    BY DEF IInv, Withdraws
  <2>. QED
    BY <1>3, <2>1 DEF Waits, NoneGoesOn, InFlight
<1>. QED
  BY <1>4, <1>5, <1>6, <1>7, <1>8, <1>9 DEF IInv

(* A call that was refused looks at the lock: nobody has it as far as the  *)
(* sign and the tab tell, or it waits.                                      *)
LEMMA RefusedKeeps ==
    ASSUME IInv, NEW c \in Calls, Refused(c)
    PROVE  IInv'
<1>1. /\ UNCHANGED <<lock, stored, used, page, ask, server>>
      /\ "astray" \in mishap' \/ (mishap' = mishap /\ ("checked" = pc'[c] => ~sign))
      /\ mishap' \in {mishap, mishap \cup {"astray"}}
      /\ \A d \in Calls \ {c} : pc'[d] = pc[d]
  BY DEF Refused, IInv, TypeOK
<1>2. TypeOK'
  BY Constants DEF Refused, IInv, TypeOK, lock, server
<1>3. Tokens' /\ Usable' /\ Orderly'
  BY <1>1 DEF IInv, Tokens, Usable, Orderly, InFlight, server
<1>4. LockHeld'
  <2> SUFFICES ASSUME "astray" \notin mishap' PROVE LockHeld'
    BY DEF LockHeld
  <2>1. mishap' = mishap /\ ("checked" = pc'[c] => ~sign)
    BY <1>1
  <2>2. InFlight' = InFlight
    BY <1>1 DEF InFlight
  <2>3. /\ \A d \in InFlight : ask[d].home /\ sign /\ isRefreshing[TabOf[d]]
        /\ \A d, e \in InFlight : d = e
        /\ \A t \in Tabs : isRefreshing[t] => InFlight \cap Of(t) # {}
        /\ (\E d \in Calls : pc[d] = "checked") => InFlight = {}
    BY <2>1 DEF IInv, LockHeld
  <2>4. (\E d \in Calls : pc'[d] = "checked") => InFlight = {}
    BY <1>1, <2>1, <2>3
  <2>. QED
    BY <1>1, <2>2, <2>3, <2>4 DEF LockHeld, lock, Of
<1>5. Waits'
  BY <1>1, <1>2 DEF Refused, IInv, Waits, InFlight, Asked, Settled, TypeOK
<1>. QED
  BY <1>1, <1>2, <1>3, <1>4, <1>5 DEF IInv, OverlapHasCause

LEMMA TakeKeeps ==
    ASSUME IInv, NEW c \in Calls, Take(c)
    PROVE  IInv'
<1>1. /\ pc[c] = "checked" /\ pc' = [pc EXCEPT ![c] = "asking"]
      /\ isRefreshing' = [isRefreshing EXCEPT ![TabOf[c]] = TRUE] /\ sign' = TRUE /\ signAge' = 0
      /\ ask' = [ask EXCEPT ![c] = [st |-> "sent", tok |-> stored, home |-> TRUE]]
      /\ UNCHANGED <<stored, used, page, timer, server>>
  BY DEF Take
<1>2. /\ mishap' \subseteq mishap \cup {"astray", "overlap"} /\ mishap \subseteq mishap'
      /\ (\E d \in Calls \ {c} : pc[d] = "checked") => "astray" \in mishap'
      /\ InFlight # {} => "overlap" \in mishap'
      /\ InFlight = {} => ("overlap" \in mishap' => "overlap" \in mishap)
  BY DEF Take
<1>3. TypeOK /\ ask \in [Calls -> Asks] /\ [st |-> "sent", tok |-> stored, home |-> TRUE] \in Asks
  BY Constants DEF IInv, TypeOK, Asks
<1>4. ask'[c] = [st |-> "sent", tok |-> stored, home |-> TRUE] /\ \A d \in Calls \ {c} : ask'[d] = ask[d]
  BY <1>1, <1>3
<1>5. TypeOK'
  <2>1. ask' \in [Calls -> Asks]
    BY <1>1, <1>3
  <2>. QED
    BY <1>1, <1>2, <1>3, <2>1, Constants DEF TypeOK, Asks, server
<1>6. InFlight' = InFlight \cup {c}
  BY <1>4 DEF InFlight
<1>7. Tokens'
  BY <1>1, <1>4 DEF IInv, Tokens, server
<1>8. c \notin InFlight
  BY <1>1 DEF IInv, Waits, Asked, Settled
<1>9. Waits'
  BY <1>1, <1>3, <1>6 DEF IInv, Waits, Asked, TypeOK
<1>10. Usable'
  BY <1>1, <1>2, <1>4, <1>8 DEF IInv, Usable, server, InFlight
<1>11. Orderly'
  <2> SUFFICES ASSUME mishap' \cap {"overlap", "lost"} = {} PROVE Orderly'
    BY DEF Orderly
  <2>1. InFlight = {} /\ "lost" \notin mishap
    BY <1>2
  <2>2. stored \in live
    BY <2>1 DEF IInv, Usable, InFlight
  <2>3. InFlight' = {c}
    BY <1>6, <2>1
  <2>4. \A d \in Calls \ {c} : ask[d].st = "none"
    BY <2>1 DEF InFlight
  <2>. QED
    BY <1>1, <1>4, <2>2, <2>3, <2>4 DEF Orderly, server
<1>12. LockHeld' /\ OverlapHasCause'
  <2>1. CASE "astray" \in mishap'
    BY <2>1 DEF LockHeld, OverlapHasCause
  <2>2. CASE "astray" \notin mishap'
    <3>1. /\ InFlight = {} /\ \A t \in Tabs : ~isRefreshing[t]
          /\ \A d \in Calls \ {c} : pc[d] # "checked"
          /\ "overlap" \notin mishap
      BY <1>1, <1>2, <2>2 DEF IInv, LockHeld, OverlapHasCause
    <3>2. InFlight' = {c} /\ \A d \in Calls : pc'[d] # "checked"
      BY <1>1, <1>3, <1>6, <3>1 DEF TypeOK
    <3>3. /\ isRefreshing'[TabOf[c]] /\ \A t \in Tabs : isRefreshing'[t] => t = TabOf[c]
      BY <1>1, <1>3, <3>1, Constants DEF TypeOK
    <3>4. c \in Of(TabOf[c])
      BY DEF Of
    <3>5. "overlap" \notin mishap'
      BY <1>2, <3>1
    <3>. QED
      BY <1>1, <1>4, <3>2, <3>3, <3>4, <3>5 DEF LockHeld, OverlapHasCause, Of
  <2>. QED
    BY <2>1, <2>2
<1>. QED
  BY <1>5, <1>7, <1>9, <1>10, <1>11, <1>12 DEF IInv

LEMMA LookupKeeps ==
    ASSUME IInv, NEW c \in Calls, Lookup(c)
    PROVE  IInv'
<1> DEFINE found == [ask[c] EXCEPT !.st = "found"]
           refused == [ask[c] EXCEPT !.st = "rejected"]
<1>1. ask \in [Calls -> Asks] /\ ask[c] \in Asks /\ ask[c].st = "sent" /\ TypeOK
  BY DEF IInv, TypeOK, Asks, Lookup
<1>2. /\ found \in Asks /\ found.st = "found" /\ found.tok = ask[c].tok /\ found.home = ask[c].home
      /\ refused \in Asks /\ refused.st = "rejected" /\ refused.tok = ask[c].tok /\ refused.home = ask[c].home
      /\ NoAsk \in Asks /\ NoAsk.st = "none" /\ NoAsk.tok = 0
  BY <1>1, Constants DEF Asks, NoAsk
<1>3. /\ ask' = [ask EXCEPT ![c] = IF ask[c].tok \in live THEN found
                                   ELSE IF ask[c].home THEN refused ELSE NoAsk]
      /\ UNCHANGED <<lock, stored, page, pc, used, timer, server, mishap>>
  BY DEF Lookup
<1> HIDE DEF found, refused
<1>4. /\ ask' \in [Calls -> Asks]
      /\ ask'[c] = IF ask[c].tok \in live THEN found ELSE IF ask[c].home THEN refused ELSE NoAsk
      /\ \A d \in Calls \ {c} : ask'[d] = ask[d]
  BY <1>1, <1>2, <1>3
<1>5. TypeOK'
  BY <1>1, <1>3, <1>4 DEF TypeOK, lock, server, Asks
<1>6. /\ ask'[c].tok \in {ask[c].tok, 0} /\ ask'[c].st \in {"found", "rejected", "none"}
      /\ ask'[c].st = "rejected" => ask[c].tok \notin live
      /\ ask[c].home => ask'[c].home /\ ask'[c].st # "none"
  BY <1>2, <1>4
<1>7. InFlight' \subseteq InFlight /\ (ask[c].home => InFlight' = InFlight) /\ c \in InFlight
  BY <1>1, <1>4, <1>6 DEF InFlight
<1>8. Tokens'
  <2>1. Tokens /\ issued \in Nat
    BY BoundsAssumption DEF IInv, TypeOK, Pairs
  <2>2. \A d \in Calls : ask'[d].tok <= issued'
    BY <1>3, <1>4, <1>6, <2>1 DEF Tokens, server
  <2>3. ASSUME NEW d \in Calls, ask'[d].st = "granted"
        PROVE  /\ ask'[d].tok \in live' /\ ask'[d].tok # stored'
               /\ \A e \in Calls \ {d} : ask'[e].tok # ask'[d].tok
    <3>1. d # c /\ ask'[d] = ask[d]
      BY <1>4, <1>6, <2>3
    <3>2. ask[d].tok \in live /\ ask[d].tok # stored /\ ask[d].tok # 0 /\ \A e \in Calls \ {d} : ask[e].tok # ask[d].tok
      BY <2>1, <2>3, <3>1 DEF Tokens
    <3>. QED
      BY <1>3, <1>4, <1>6, <3>1, <3>2 DEF server
  <2>. QED
    BY <1>3, <2>1, <2>2, <2>3 DEF Tokens, server
<1>9. Usable'
  BY <1>1, <1>3, <1>4 DEF IInv, Usable, server
<1>10. Orderly' /\ Waits'
  BY <1>1, <1>3, <1>4, <1>6, <1>7 DEF IInv, Orderly, Waits, server, InFlight
<1>11. LockHeld'
  BY <1>3, <1>4, <1>6, <1>7 DEF IInv, LockHeld, lock, Of
<1>12. OverlapHasCause'
  BY <1>3 DEF IInv, OverlapHasCause
<1>. QED
  BY <1>5, <1>8, <1>9, <1>10, <1>11, <1>12 DEF IInv

LEMMA RotateKeeps ==
    ASSUME IInv, NEW c \in Calls, Rotate(c)
    PROVE  IInv'
<1> DEFINE granted == [ask[c] EXCEPT !.st = "granted", !.tok = issued + 1]
<1>1. ask \in [Calls -> Asks] /\ ask[c] \in Asks /\ ask[c].st = "found" /\ TypeOK /\ Tokens
  BY DEF IInv, TypeOK, Asks, Rotate
<1>2. issued \in Nat /\ issued < MaxPairs /\ issued + 1 \in Pairs /\ issued + 1 \in 0..MaxPairs
  BY <1>1, BoundsAssumption DEF TypeOK, Pairs, Rotate
<1>3. /\ granted \in Asks /\ granted.st = "granted" /\ granted.tok = issued + 1 /\ granted.home = ask[c].home
      /\ NoAsk \in Asks /\ NoAsk.st = "none" /\ NoAsk.tok = 0
  BY <1>1, <1>2, Constants DEF Asks, NoAsk
<1>4. /\ issued' = issued + 1 /\ live' = (live \ {ask[c].tok}) \cup {issued + 1}
      /\ ask' = [ask EXCEPT ![c] = IF ask[c].home THEN granted ELSE NoAsk]
      /\ mishap' = IF ask[c].home THEN mishap ELSE mishap \cup {"lost"}
      /\ UNCHANGED <<lock, stored, page, pc, used, timer, expired>>
  BY DEF Rotate
<1> HIDE DEF granted
<1>5. /\ ask' \in [Calls -> Asks]
      /\ ask'[c] = IF ask[c].home THEN granted ELSE NoAsk
      /\ \A d \in Calls \ {c} : ask'[d] = ask[d]
  BY <1>1, <1>3, <1>4
<1>6. TypeOK'
  BY <1>1, <1>2, <1>4, <1>5 DEF TypeOK, lock, Asks
<1>7. /\ InFlight' \subseteq InFlight /\ (ask[c].home => InFlight' = InFlight) /\ c \in InFlight
      /\ \A d \in InFlight' : ask'[d].home = ask[d].home
  BY <1>1, <1>3, <1>5 DEF InFlight
<1>8. Tokens'
  <2>1. \A d \in Calls : ask[d].tok <= issued /\ ask[d].tok \in Nat
    BY <1>1 DEF Tokens, Asks
  <2>2. \A d \in Calls : ask'[d].tok <= issued'
    BY <1>2, <1>3, <1>4, <1>5, <2>1
  <2>3. stored' <= issued' /\ live' \subseteq 1..issued'
    <3>1. stored <= issued /\ stored \in Nat /\ live \subseteq 1..issued
      BY <1>1, BoundsAssumption DEF Tokens, TypeOK, Pairs
    <3>2. stored' <= issued'
      BY <1>2, <1>4, <3>1
    <3>3. \A p \in 1..issued : p \in 1..issued + 1
      BY <1>2
    <3>4. live' \subseteq live \cup {issued + 1} /\ issued + 1 \in 1..issued + 1
      BY <1>2, <1>4
    <3>5. live' \subseteq 1..issued'
      BY <1>4, <3>1, <3>3, <3>4
    <3>. QED
      BY <3>2, <3>5
  <2>4. ASSUME NEW d \in Calls, ask'[d].st = "granted"
        PROVE  /\ ask'[d].tok \in live' /\ ask'[d].tok # stored'
               /\ \A e \in Calls \ {d} : ask'[e].tok # ask'[d].tok
    <3>1. CASE d = c
      <4>1. ask'[d].tok = issued + 1
        BY <1>3, <1>5, <2>4, <3>1
      <4>2. \A e \in Calls \ {d} : ask'[e].tok <= issued /\ ask'[e].tok \in Nat
        BY <1>5, <2>1, <3>1
      <4>3. stored <= issued /\ stored \in Nat
        BY <1>1, BoundsAssumption DEF Tokens, TypeOK, Pairs
      <4>. QED
        BY <1>2, <1>4, <4>1, <4>2, <4>3
    <3>2. CASE d # c
      <4>1. /\ ask'[d] = ask[d] /\ ask[d].tok \in live /\ ask[d].tok # stored
            /\ \A e \in Calls \ {d} : ask[e].tok # ask[d].tok
        BY <1>1, <1>5, <2>4, <3>2 DEF Tokens
      <4>2. ask[d].tok # 0 /\ ask[d].tok # issued + 1
        BY <1>1, <1>2, <2>1, <4>1 DEF Tokens
      <4>. QED
        BY <1>3, <1>4, <1>5, <3>2, <4>1, <4>2
    <3>. QED
      BY <3>1, <3>2
  <2>. QED
    BY <2>2, <2>3, <2>4 DEF Tokens
<1>9. Usable'
  <2>1. CASE ask[c].home
    BY <1>3, <1>5, <2>1 DEF Usable
  <2>2. CASE ~ask[c].home
    BY <1>4, <2>2 DEF Usable
  <2>. QED
    BY <2>1, <2>2
<1>10. Waits'
  BY <1>4, <1>7 DEF IInv, Waits, InFlight
<1>11. Orderly'
  <2> SUFFICES ASSUME mishap' \cap {"overlap", "lost"} = {} PROVE Orderly'
    BY DEF Orderly
  <2>1. /\ \A d, e \in InFlight : d = e
        /\ \A d \in Calls : ask[d].st # "rejected"
    BY <1>4 DEF IInv, Orderly
  <2>2. \A d \in Calls \ {c} : ask'[d].st = "none"
    BY <1>5, <1>7, <2>1 DEF InFlight
  <2>3. ask'[c].st \in {"granted", "none"}
    BY <1>3, <1>5
  <2>. QED
    BY <1>7, <2>1, <2>2, <2>3 DEF Orderly, InFlight
<1>12. LockHeld'
  BY <1>4, <1>7 DEF IInv, LockHeld, lock, Of
<1>13. OverlapHasCause'
  BY <1>4 DEF IInv, OverlapHasCause
<1>. QED
  BY <1>6, <1>8, <1>9, <1>10, <1>11, <1>12, <1>13 DEF IInv

LEMMA RenewedKeeps ==
    ASSUME IInv, NEW c \in Calls, Renewed(c)
    PROVE  IInv'
<1>1. TypeOK /\ Tokens /\ ask \in [Calls -> Asks] /\ NoAsk \in Asks
  BY Constants DEF IInv, TypeOK, Asks
<1>2. /\ TypeOK' /\ NoneLooks /\ GivenBack(TabOf[c])
      /\ ask[c].st = "granted" /\ stored' = ask[c].tok
      /\ ask' = [ask EXCEPT ![c] = NoAsk] /\ UNCHANGED <<issued, live, mishap>>
      /\ \A d \in Calls \ {c} : pc'[d] = pc[d]
  BY <1>1, RenewedShape
<1>3. /\ ask'[c].st = "none" /\ ask'[c].tok = 0 /\ \A d \in Calls \ {c} : ask'[d] = ask[d]
  BY <1>1, <1>2 DEF NoAsk
<1>4. InFlight' = InFlight \ {c} /\ c \in InFlight
  BY <1>2, <1>3 DEF InFlight
<1>5. ask[c].tok \in live /\ \A d \in Calls \ {c} : ask[d].tok # ask[c].tok
  BY <1>1, <1>2 DEF Tokens
<1>6. Tokens'
  <2>1. /\ issued \in Nat /\ live \subseteq 1..issued
        /\ \A d \in Calls : ask[d].tok <= issued
    BY <1>1, BoundsAssumption DEF Tokens, TypeOK, Pairs
  <2>2. \A d \in Calls : ask'[d].tok <= issued'
    BY <1>2, <1>3, <2>1
  <2>3. ASSUME NEW d \in Calls, ask'[d].st = "granted"
        PROVE  /\ ask'[d].tok \in live' /\ ask'[d].tok # stored'
               /\ \A e \in Calls \ {d} : ask'[e].tok # ask'[d].tok
    <3>1. d # c /\ ask'[d] = ask[d]
      BY <1>3, <2>3
    <3>2. ask[d].tok \in live /\ ask[d].tok # 0 /\ \A e \in Calls \ {d} : ask[e].tok # ask[d].tok
      BY <1>1, <2>1, <2>3, <3>1 DEF Tokens
    <3>. QED
      BY <1>2, <1>3, <1>5, <3>1, <3>2
  <2>. QED
    BY <1>2, <1>5, <2>1, <2>2, <2>3 DEF Tokens
<1>7. Usable'
  BY <1>2, <1>5 DEF Usable
<1>8. Orderly' /\ Waits'
  BY <1>2, <1>3, <1>4 DEF IInv, Orderly, Waits, InFlight
<1>9. LockHeld'
  <2> SUFFICES ASSUME "astray" \notin mishap' PROVE LockHeld'
    BY DEF LockHeld
  <2>1. /\ InFlight = {c} /\ \A d \in Calls : pc[d] # "checked"
        /\ \A t \in Tabs : isRefreshing[t] => c \in Of(t)
    BY <1>2, <1>4 DEF IInv, LockHeld
  <2>2. InFlight' = {}
    BY <1>4, <2>1
  <2>3. \A t \in Tabs : ~isRefreshing'[t]
    <3>1. Released(TabOf[c]) /\ TabOf[c] \in Tabs
      BY Constants DEF Renewed
    <3>2. ~isRefreshing'[TabOf[c]]
      BY <1>1, <3>1 DEF Released, lock, TypeOK
    <3>3. \A t \in Tabs \ {TabOf[c]} : ~isRefreshing'[t]
      BY <1>2, <2>1 DEF GivenBack, Of
    <3>. QED
      BY <3>2, <3>3
  <2>. QED
    BY <2>2, <2>3 DEF LockHeld
<1>10. OverlapHasCause'
  BY <1>2 DEF IInv, OverlapHasCause
<1>. QED
  BY <1>2, <1>6, <1>7, <1>8, <1>9, <1>10 DEF IInv

LEMMA SignInKeeps ==
    ASSUME IInv, NEW t \in Tabs, SignIn(t)
    PROVE  IInv'
<1>1. TypeOK /\ Tokens
  BY DEF IInv
<1>2. /\ issued' = issued + 1 /\ live' = live \cup {issued + 1} /\ stored' = issued + 1
      /\ page' = [page EXCEPT ![t] = "console"]
      /\ UNCHANGED <<lock, pc, used, timer, ask, expired, mishap>>
  BY DEF SignIn
<1>3. issued \in Nat /\ issued + 1 \in Pairs
  BY <1>1, BoundsAssumption DEF TypeOK, Pairs, SignIn
<1>4. TypeOK'
  BY <1>1, <1>2, <1>3 DEF TypeOK, lock
<1>5. Tokens'
  <2>1. live \subseteq 1..issued /\ \A c \in Calls : ask[c].tok <= issued /\ ask[c].tok \in Nat
    BY <1>1, BoundsAssumption DEF Tokens, TypeOK
  <2>2. live' \subseteq 1..issued' /\ stored' <= issued'
    <3>1. \A p \in 1..issued : p \in 1..issued + 1
      BY <1>3
    <3>. QED
      BY <1>2, <1>3, <2>1, <3>1
  <2>3. \A c \in Calls : ask'[c].tok <= issued' /\ ask'[c].tok # stored'
    BY <1>2, <1>3, <2>1
  <2>. QED
    BY <1>1, <1>2, <2>2, <2>3 DEF Tokens
<1>6. Usable' /\ Orderly' /\ Waits' /\ LockHeld' /\ OverlapHasCause'
  BY <1>2 DEF IInv, Usable, Orderly, Waits, LockHeld, OverlapHasCause, InFlight, Of, lock
<1>. QED
  BY <1>4, <1>5, <1>6 DEF IInv

LEMMA InitInv == Init => IInv
<1> SUFFICES ASSUME Init PROVE IInv
  OBVIOUS
<1>1. \A c \in Calls : ask[c].st = "none" /\ ask[c].tok = 0
  BY DEF Init, NoAsk
<1>2. TypeOK
  BY Constants DEF Init, TypeOK, Asks, Timers
<1>3. Tokens
  BY <1>1 DEF Init, Tokens
<1>4. Usable /\ Orderly /\ LockHeld /\ OverlapHasCause /\ Waits
  BY <1>1 DEF Init, Usable, Orderly, LockHeld, OverlapHasCause, Waits, InFlight
<1>. QED
  BY <1>2, <1>3, <1>4 DEF IInv

LEMMA NextInv == IInv /\ [Next]_vars => IInv'
<1> SUFFICES ASSUME IInv, [Next]_vars PROVE IInv'
  OBVIOUS
<1>1. TypeOK
  BY DEF IInv
<1>2. ASSUME \/ \E c \in Calls : Send(c) \/ Served(c) \/ WaitOver(c)
             \/ Expire \/ Tick
             \/ UNCHANGED vars
      PROVE  IInv'
  BY <1>1, <1>2, StillStep, StillKeeps
<1>3. ASSUME NEW c \in Calls, Refused(c) PROVE IInv'
  BY <1>3, RefusedKeeps
<1>4. ASSUME NEW c \in Calls, Take(c) PROVE IInv'
  BY <1>4, TakeKeeps
<1>5. ASSUME NEW c \in Calls, Lookup(c) PROVE IInv'
  BY <1>5, LookupKeeps
<1>6. ASSUME NEW c \in Calls, Rotate(c) PROVE IInv'
  BY <1>6, RotateKeeps
<1>7. ASSUME NEW c \in Calls, Renewed(c) PROVE IInv'
  BY <1>7, RenewedKeeps
<1>8. ASSUME NEW c \in Calls, Rejected(c) PROVE IInv'
  BY <1>1, <1>8, RejectedShape, WithdrawsTypes, WithdrawsKeeps
<1>9. ASSUME NEW c \in Calls, Broken(c) PROVE IInv'
  BY <1>1, <1>9, BrokenShape, WithdrawsTypes, WithdrawsKeeps
<1>10. ASSUME NEW c \in Calls, TimerFires(c) PROVE IInv'
  BY <1>1, <1>10, TimerShape, WithdrawsTypes, WithdrawsKeeps
<1>11. ASSUME NEW t \in Tabs, Close(t) PROVE IInv'
  BY <1>1, <1>11, CloseShape, WithdrawsTypes, WithdrawsKeeps
<1>12. ASSUME NEW t \in Tabs, Dies(t) PROVE IInv'
  BY <1>1, <1>12, DiesShape, WithdrawsTypes, WithdrawsKeeps
<1>13. ASSUME NEW t \in Tabs, SignIn(t) PROVE IInv'
  BY <1>13, SignInKeeps
<1>. QED
  BY <1>2, <1>3, <1>4, <1>5, <1>6, <1>7, <1>8, <1>9, <1>10, <1>11, <1>12, <1>13 DEF Next, Answered, Goes

(* IInv holds throughout. *)
THEOREM Invariance == Spec => []IInv
BY InitInv, NextInv, PTL DEF Spec

-----------------------------------------------------------------------------
(* The state of the session is well formed, and two requests to renew are   *)
(* out at once only after the lock was given away: an old sign, a timer, a  *)
(* tab that went away or a failed request, or two tabs that looked at the   *)
(* sign at the same time (refresh-token.ts).                                *)
THEOREM LockCorrect == Spec => []LockInv
<1>1. IInv => LockInv
  BY DEF IInv, LockInv
<1>. QED
  BY <1>1, Invariance, PTL

(* The server refuses a refresh token only when two requests were out at    *)
(* once or the answer to one was lost: the lock of refresh-token.ts and the *)
(* rotation of AccountService.refresh_token fit together otherwise.         *)
THEOREM RefusalsHaveCause == Spec => []RefusedOnlyAfterOverlap
<1>1. IInv => RefusedOnlyAfterOverlap
  BY DEF IInv, Orderly, RefusedOnlyAfterOverlap
<1>. QED
  BY <1>1, Invariance, PTL

(* Whoever of the tabs and calls is late, refused or gone, the console is   *)
(* left with a pair the server takes when no request is out, unless an      *)
(* answer of the server was lost.                                           *)
THEOREM PairStaysUsable == Spec => []StoredPairUsable
<1>1. IInv => StoredPairUsable
  BY DEF IInv, Usable, StoredPairUsable, InFlight
<1>. QED
  BY <1>1, Invariance, PTL
=============================================================================
