------------------------- MODULE PushDevicesProofs -------------------------
(***************************************************************************)
(* What PushDevices promises of one installation, for any number of        *)
(* installations, customers, tokens and calls in flight.  The invariant is *)
(* said installation by installation: a step is a step of one, and leaves  *)
(* the others as they are.                                                 *)
(***************************************************************************)
EXTENDS PushDevices, TLAPS

\* No token is known that Firebase has not given yet, and what it refused is an older one.
Known(d) ==
    /\ row[d].token <= app[d].token
    /\ \A i \in Slots : call[d][i].token <= app[d].token
    /\ \A t \in Tokens : <<d, t>> \in push => t <= app[d].token
    /\ \A t \in Tokens : <<d, t>> \in rejected => t < app[d].token

\* The calls of a log-out: a log-out is on its way exactly while one of them is, and there
\* is one of them at a time.
Ending(c) == c.then \in {"relaunch", "clear"}

Sound(c) ==
    /\ c.kind = "none" => c = NoCall
    /\ c.kind = "unregister" => c.user = None
    /\ c.then = "relaunch" => c.kind = "unregister"
    /\ c.then = "clear" => c.kind = "register" /\ c.user = None

LeavesOnce(d) ==
    /\ \A i \in Slots : Sound(call[d][i])
    /\ \A i, j \in Slots : Ending(call[d][i]) /\ Ending(call[d][j]) => i = j
    /\ app[d].leaving => app[d].session # None
    /\ app[d].leaving <=> \E i \in Slots : Ending(call[d][i])

\* While nobody is logged in, or somebody logs out, no call brings a customer back; and
\* what follows the log-out finds the row cleared.
Unlinked(d) ==
    d \notin undone =>
        /\ app[d].session = None \/ app[d].leaving => \A i \in Slots : call[d][i].user = None
        /\ app[d].session = None => row[d].user = None
        /\ \A i \in Slots : call[d][i].then = "clear" => row[d].user = None

\* The row of a customer who is logged in is right, or the calls in flight will make it so.
Reached(d) ==
    d \notin stray /\ app[d].session # None /\ ~app[d].leaving =>
        /\ \A i \in InFlight(d) :
            /\ call[d][i].kind = "register"
            /\ call[d][i].token = app[d].token
            /\ call[d][i].user \in {None, app[d].session}
        /\ \/ row[d].user = app[d].session
           \/ \E i \in InFlight(d) : call[d][i].user = app[d].session
        /\ row[d].token = app[d].token \/ InFlight(d) # {}

DInv(d) == Known(d) /\ LeavesOnce(d) /\ Unlinked(d) /\ Reached(d)

IInv == TypeOK /\ \A d \in Devices : DInv(d)

\* A function written at one place: the value there, and the others as they were.
LEMMA UpdatedAt ==
    ASSUME NEW S, NEW T, NEW f \in [S -> T], NEW d \in S, NEW x \in T
    PROVE  /\ [f EXCEPT ![d] = x] \in [S -> T]
           /\ [f EXCEPT ![d] = x][d] = x
           /\ \A e \in S \ {d} : [f EXCEPT ![d] = x][e] = f[e]
OBVIOUS

\* The initial states satisfy the invariant: no row, no call, nobody logged in.
LEMMA InitIInv == Init => IInv
<1>. SUFFICES ASSUME Init PROVE IInv
  OBVIOUS
<1>. USE DeviceAssumption DEF Init
<1>1. TypeOK
  <2>1. app \in [Devices -> App]
    BY DEF App, Tokens
  <2>2. call \in [Devices -> [Slots -> Call]]
    BY DEF Call, NoCall, Tokens
  <2>3. row \in [Devices -> Row]
    BY DEF Row, NoRow, Tokens
  <2>. QED
    BY <2>1, <2>2, <2>3 DEF TypeOK
<1>2. ASSUME NEW d \in Devices PROVE DInv(d)
  BY <1>2 DEF DInv, Known, LeavesOnce, Sound, Ending, Unlinked, Reached, InFlight, NoCall, NoRow
<1>. QED
  BY <1>1, <1>2 DEF IInv

-----------------------------------------------------------------------------
(* Frames *)

\* A step leaves an installation as it is.
Same(d) ==
    /\ app'[d] = app[d] /\ call'[d] = call[d] /\ row'[d] = row[d]
    /\ d \in stray' <=> d \in stray
    /\ d \in undone' <=> d \in undone
    /\ \A t \in Tokens : <<d, t>> \in push' => <<d, t>> \in push
    /\ \A t \in Tokens : <<d, t>> \in rejected' => <<d, t>> \in rejected

LEMMA SameInv == ASSUME NEW d \in Devices, DInv(d), Same(d) PROVE DInv(d)'
<1>1. Known(d)' /\ LeavesOnce(d)'
  BY DEF DInv, Same, Known, LeavesOnce, Ending
<1>2. Unlinked(d)' /\ Reached(d)'
  BY DEF DInv, Same, Unlinked, Reached, InFlight
<1>. QED
  BY <1>1, <1>2 DEF DInv

\* What it takes for a step of one installation to keep the invariant.
LEMMA StepOf ==
    ASSUME IInv, NEW d \in Devices, TypeOK', DInv(d)',
           \A e \in Devices \ {d} : Same(e)
    PROVE  IInv'
BY SameInv DEF IInv

\* A log-out goes on as before when the calls that come and go are no part of it.
LEMMA LeavesOnceKept ==
    ASSUME NEW d \in Devices, LeavesOnce(d),
           app'[d].leaving = app[d].leaving,
           app[d].session # None => app'[d].session # None,
           \A i \in Slots : \/ call'[d][i] = call[d][i]
                           \/ /\ Sound(call'[d][i])
                              /\ ~Ending(call[d][i]) /\ ~Ending(call'[d][i])
    PROVE  LeavesOnce(d)'
<1>1. \A i \in Slots : Sound(call'[d][i]) /\ (Ending(call'[d][i]) <=> Ending(call[d][i]))
  BY DEF LeavesOnce
<1>. QED
  BY <1>1 DEF LeavesOnce, Sound, Ending

LEMMA NewCall ==
    ASSUME NEW d \in Devices, NEW c \in Call, TypeOK, SendCall(d, c)
    PROVE  /\ call' \in [Devices -> [Slots -> Call]]
           /\ \A e \in Devices \ {d} : call'[e] = call[e]
           /\ \E i \in Slots \ InFlight(d) :
                 /\ call'[d][i] = c
                 /\ \A j \in Slots \ {i} : call'[d][j] = call[d][j]
BY DEF SendCall, TypeOK

LEMMA RegisterCallType ==
    ASSUME NEW d \in Devices, NEW user \in Users \cup {None}, NEW phone \in Users \cup {None},
           NEW then \in {"nothing", "bindGuest", "bindUser", "relaunch", "clear"}, TypeOK
    PROVE  /\ RegisterCall(d, user, phone, then) \in Call
           /\ RegisterCall(d, user, phone, then).kind = "register"
           /\ RegisterCall(d, user, phone, then).user = user
           /\ RegisterCall(d, user, phone, then).token = app[d].token
           /\ RegisterCall(d, user, phone, then).then = then
BY DEF RegisterCall, Call, TypeOK, App

-----------------------------------------------------------------------------
(* The app *)

LEMMA ResumeInv == ASSUME IInv, NEW d \in Devices, Resume(d) PROVE IInv'
<1>. USE DeviceAssumption
<1>. DEFINE guest == RegisterCall(d, None, None, "bindGuest")
            own == RegisterCall(d, app[d].session, None, "bindUser")
<1>1. TypeOK /\ DInv(d)
  BY DEF IInv
<1>2. app[d] \in App
  BY <1>1 DEF TypeOK
<1>3. /\ guest \in Call /\ guest.kind = "register" /\ guest.user = None
      /\ guest.token = app[d].token /\ guest.then = "bindGuest"
  BY <1>1, RegisterCallType
<1>4. /\ own \in Call /\ own.kind = "register" /\ own.user = app[d].session
      /\ own.token = app[d].token /\ own.then = "bindUser"
  BY <1>1, <1>2, RegisterCallType DEF App
<1>5. /\ call' \in [Devices -> [Slots -> Call]]
      /\ \A e \in Devices \ {d} : call'[e] = call[e]
      /\ \A i \in Slots : \/ call'[d][i] = call[d][i]
                          \/ i \notin InFlight(d) /\ call'[d][i] \in {guest, own}
      /\ \A i \in Slots : app[d].session = None => call'[d][i] \in {call[d][i], guest}
      /\ app[d].session # None => \E i \in Slots : call'[d][i] = own
  <2>1. CASE app[d].session = None
    <3>1. SendCall(d, guest)
      BY <2>1 DEF Resume
    <3>. QED
      BY <2>1, <3>1, <1>1, <1>3, NewCall
  <2>2. CASE app[d].session # None
    <3>1. PICK i \in Slots \ InFlight(d), j \in Slots \ InFlight(d) :
              i # j /\ call' = [call EXCEPT ![d][i] = guest, ![d][j] = own]
      BY <2>2 DEF Resume
    <3>. HIDE DEF guest, own
    <3>. QED
      BY <2>2, <3>1, <1>1, <1>3, <1>4 DEF TypeOK
  <2>. QED
    BY <2>1, <2>2
<1>. HIDE DEF guest, own
<1>6. /\ UNCHANGED <<app, row, push, rejected>>
      /\ stray' = IF InFlight(d) = {} THEN stray \ {d} ELSE stray \cup {d}
      /\ undone' = IF app[d].leaving /\ app[d].session # None THEN undone \cup {d} ELSE undone
  BY DEF Resume, Repairs, MayUndo
<1>7. TypeOK'
  BY <1>1, <1>5, <1>6 DEF TypeOK
<1>8. \A e \in Devices \ {d} : Same(e)
  BY <1>5, <1>6 DEF Same
<1>9. Known(d)'
  BY <1>1, <1>2, <1>3, <1>4, <1>5, <1>6 DEF DInv, Known, App, Tokens
<1>12. LeavesOnce(d)'
  <2>1. \A i \in InFlight(d)' \ InFlight(d) : ~Ending(call[d][i])
    BY <1>1 DEF DInv, LeavesOnce, Sound, InFlight, Ending, NoCall
  <2>. QED
    BY <1>1, <1>3, <1>4, <1>5, <1>6, <2>1, LeavesOnceKept DEF DInv, Sound, Ending, InFlight
<1>10. Unlinked(d)'
  BY <1>1, <1>3, <1>4, <1>5, <1>6 DEF DInv, LeavesOnce, Sound, Ending, Unlinked, InFlight
<1>11. Reached(d)'
  BY <1>1, <1>3, <1>4, <1>5, <1>6 DEF DInv, LeavesOnce, Sound, Reached, InFlight
<1>. QED
  BY <1>7, <1>8, <1>9, <1>10, <1>11, <1>12, StepOf DEF DInv

LEMMA LoginInv == ASSUME IInv, NEW d \in Devices, NEW u \in Users, Login(d, u) PROVE IInv'
<1>. USE DeviceAssumption
<1>. DEFINE c == RegisterCall(d, u, None, "bindUser")
<1>1. TypeOK /\ DInv(d)
  BY DEF IInv
<1>2. /\ c \in Call /\ c.kind = "register" /\ c.user = u
      /\ c.token = app[d].token /\ c.then = "bindUser"
  BY <1>1, RegisterCallType
<1>3. SendCall(d, c)
  BY DEF Login
<1>. HIDE DEF c
<1>4. /\ app[d].session = None /\ app' = [app EXCEPT ![d].session = u]
      /\ stray' = IF InFlight(d) = {} THEN stray \ {d} ELSE stray \cup {d}
      /\ UNCHANGED <<row, push, rejected, undone>>
  BY DEF Login, Repairs
<1>5. /\ app' \in [Devices -> App] /\ \A e \in Devices \ {d} : app'[e] = app[e]
      /\ app'[d].session = u /\ app'[d].token = app[d].token
      /\ app'[d].leaving = app[d].leaving
  <2>1. app \in [Devices -> App] /\ app[d] \in App /\ u \in Users \cup {None}
    BY <1>1 DEF TypeOK
  <2>2. PICK a : a = [app[d] EXCEPT !.session = u]
    OBVIOUS
  <2>3. a \in App /\ a.session = u /\ a.token = app[d].token /\ a.leaving = app[d].leaving
    BY <2>1, <2>2 DEF App
  <2>4. app' = [app EXCEPT ![d] = a]
    BY <1>4, <2>2
  <2>. QED
    BY <2>1, <2>3, <2>4, UpdatedAt
<1>6. PICK i \in Slots \ InFlight(d) : call'[d][i] = c /\ \A j \in Slots \ {i} : call'[d][j] = call[d][j]
  BY <1>1, <1>2, <1>3, NewCall
<1>7. call' \in [Devices -> [Slots -> Call]] /\ \A e \in Devices \ {d} : call'[e] = call[e]
  BY <1>1, <1>2, <1>3, NewCall
<1>8. TypeOK'
  BY <1>1, <1>4, <1>5, <1>7 DEF TypeOK
<1>9. \A e \in Devices \ {d} : Same(e)
  BY <1>4, <1>5, <1>7 DEF Same
<1>10. ~app[d].leaving /\ \A j \in Slots : ~Ending(call[d][j])
  BY <1>1, <1>4 DEF DInv, LeavesOnce
<1>11. Known(d)'
  BY <1>1, <1>2, <1>4, <1>5, <1>6 DEF DInv, Known, TypeOK, App, Tokens
<1>14. LeavesOnce(d)'
  BY <1>1, <1>2, <1>4, <1>5, <1>6, <1>10, LeavesOnceKept DEF DInv, Sound, Ending
<1>12. Unlinked(d)'
  BY <1>2, <1>4, <1>5, <1>6, <1>10 DEF Unlinked, Ending
<1>13. Reached(d)'
  BY <1>1, <1>2, <1>4, <1>5, <1>6 DEF DInv, LeavesOnce, Sound, Reached, InFlight
<1>. QED
  BY <1>8, <1>9, <1>11, <1>12, <1>13, <1>14, StepOf DEF DInv

LEMMA LogoutInv == ASSUME IInv, NEW d \in Devices, Logout(d) PROVE IInv'
<1>. USE DeviceAssumption
<1>. DEFINE c == [NoCall EXCEPT !.kind = "unregister", !.then = "relaunch"]
<1>1. TypeOK /\ DInv(d)
  BY DEF IInv
<1>2. c \in Call /\ c.kind = "unregister" /\ c.user = None /\ c.token = 0 /\ c.then = "relaunch"
  <2>1. NoCall \in Call
    BY DEF NoCall, Call, Tokens
  <2>2. NoCall.user = None /\ NoCall.token = 0
    BY DEF NoCall
  <2>. QED
    BY <2>1, <2>2 DEF Call
<1>3. SendCall(d, c)
  BY DEF Logout
<1>. HIDE DEF c
<1>4. /\ app[d].session # None /\ ~app[d].leaving
      /\ app' = [app EXCEPT ![d].leaving = TRUE]
      /\ stray' = IF InFlight(d) = {} THEN stray ELSE stray \cup {d}
      /\ undone' = IF \E i \in InFlight(d) : call[d][i].user # None
                   THEN undone \cup {d} ELSE undone \ {d}
      /\ UNCHANGED <<row, push, rejected>>
  BY DEF Logout, Crosses
<1>5. /\ app' \in [Devices -> App] /\ \A e \in Devices \ {d} : app'[e] = app[e]
      /\ app'[d].session = app[d].session /\ app'[d].token = app[d].token
      /\ app'[d].leaving
  BY <1>1, <1>4 DEF TypeOK, App
<1>6. PICK i \in Slots \ InFlight(d) : call'[d][i] = c /\ \A j \in Slots \ {i} : call'[d][j] = call[d][j]
  BY <1>1, <1>2, <1>3, NewCall
<1>7. call' \in [Devices -> [Slots -> Call]] /\ \A e \in Devices \ {d} : call'[e] = call[e]
  BY <1>1, <1>2, <1>3, NewCall
<1>8. TypeOK'
  BY <1>1, <1>4, <1>5, <1>7 DEF TypeOK
<1>9. \A e \in Devices \ {d} : Same(e)
  BY <1>4, <1>5, <1>7 DEF Same
<1>10. \A j \in Slots : ~Ending(call[d][j]) /\ Sound(call[d][j])
  BY <1>1, <1>4 DEF DInv, LeavesOnce
<1>11. Known(d)'
  <2>1. app[d].token \in Nat
    BY <1>1 DEF TypeOK, App, Tokens
  <2>. QED
    BY <1>1, <1>2, <1>4, <1>5, <1>6, <2>1 DEF DInv, Known
<1>12. LeavesOnce(d)'
  <2>1. Ending(c) /\ Sound(c)
    BY <1>2 DEF Ending, Sound
  <2>2. \A j \in Slots : Sound(call'[d][j]) /\ (Ending(call'[d][j]) <=> i = j)
    BY <1>6, <1>10, <2>1
  <2>. QED
    BY <1>4, <1>5, <2>2 DEF LeavesOnce, Sound, Ending
<1>13. Unlinked(d)'
  <2>1. \A j \in Slots : j \notin InFlight(d) => call[d][j].user = None
    BY <1>10 DEF Sound, InFlight, NoCall
  <2>. QED
    BY <1>2, <1>4, <1>5, <1>6, <1>10, <2>1 DEF Unlinked, Ending
<1>14. Reached(d)'
  BY <1>5 DEF Reached
<1>. QED
  BY <1>8, <1>9, <1>11, <1>12, <1>13, <1>14, StepOf DEF DInv

LEMMA SyncGuestPhoneInv ==
    ASSUME IInv, NEW d \in Devices, NEW u \in Users, SyncGuestPhone(d, u) PROVE IInv'
<1>. USE DeviceAssumption
<1>. DEFINE c == RegisterCall(d, None, u, "nothing")
<1>1. TypeOK /\ DInv(d)
  BY DEF IInv
<1>2. /\ c \in Call /\ c.kind = "register" /\ c.user = None
      /\ c.token = app[d].token /\ c.then = "nothing"
  BY <1>1, RegisterCallType
<1>3. SendCall(d, c)
  BY DEF SyncGuestPhone
<1>. HIDE DEF c
<1>4. /\ stray' = IF InFlight(d) = {} THEN stray ELSE stray \cup {d}
      /\ UNCHANGED <<app, row, push, rejected, undone>>
  BY DEF SyncGuestPhone, Crosses
<1>5. PICK i \in Slots \ InFlight(d) : call'[d][i] = c /\ \A j \in Slots \ {i} : call'[d][j] = call[d][j]
  BY <1>1, <1>2, <1>3, NewCall
<1>6. call' \in [Devices -> [Slots -> Call]] /\ \A e \in Devices \ {d} : call'[e] = call[e]
  BY <1>1, <1>2, <1>3, NewCall
<1>7. TypeOK'
  BY <1>1, <1>4, <1>6 DEF TypeOK
<1>8. \A e \in Devices \ {d} : Same(e)
  BY <1>4, <1>6 DEF Same
<1>9. call[d][i] = NoCall
  BY <1>1 DEF DInv, LeavesOnce, Sound, InFlight
<1>10. Known(d)'
  BY <1>1, <1>2, <1>4, <1>5 DEF DInv, Known, TypeOK, App, Tokens
<1>11. LeavesOnce(d)'
  BY <1>1, <1>2, <1>4, <1>5, <1>9, LeavesOnceKept DEF DInv, Sound, Ending, NoCall
<1>12. Unlinked(d)'
  BY <1>1, <1>2, <1>4, <1>5 DEF DInv, Unlinked
<1>13. Reached(d)'
  BY <1>1, <1>2, <1>4, <1>5 DEF DInv, Reached, InFlight
<1>. QED
  BY <1>7, <1>8, <1>10, <1>11, <1>12, <1>13, StepOf DEF DInv

LEMMA RefreshTokenInv == ASSUME IInv, NEW d \in Devices, RefreshToken(d) PROVE IInv'
<1>. USE DeviceAssumption
<1>. DEFINE user == IF app[d].refresh = "user" THEN app[d].session ELSE None
            c == [RegisterCall(d, user, None, "nothing") EXCEPT !.token = app[d].token + 1]
<1>1. TypeOK /\ DInv(d)
  BY DEF IInv
<1>2. app[d] \in App /\ app[d].token < MaxToken
  BY <1>1 DEF TypeOK, RefreshToken
<1>3. user \in Users \cup {None} /\ user \in {None, app[d].session}
  BY <1>2 DEF App
<1>4. /\ c \in Call /\ c.kind = "register" /\ c.user = user
      /\ c.token = app[d].token + 1 /\ c.then = "nothing"
  <2>1. app[d].token + 1 \in Tokens
    BY <1>2 DEF App, Tokens
  <2>2. /\ RegisterCall(d, user, None, "nothing") \in Call
        /\ RegisterCall(d, user, None, "nothing").kind = "register"
        /\ RegisterCall(d, user, None, "nothing").user = user
        /\ RegisterCall(d, user, None, "nothing").then = "nothing"
    BY <1>1, <1>3, RegisterCallType
  <2>. HIDE DEF user
  <2>. QED
    BY <2>1, <2>2 DEF Call
<1>5. /\ app' = [app EXCEPT ![d].token = @ + 1]
      /\ IF app[d].refresh = "none" THEN UNCHANGED call ELSE SendCall(d, c)
      /\ stray' = IF InFlight(d) = {} /\ app[d].refresh # "none" THEN stray
                  ELSE stray \cup {d}
      /\ undone' = IF app[d].leaving /\ user # None THEN undone \cup {d} ELSE undone
      /\ UNCHANGED <<row, push, rejected>>
  BY DEF RefreshToken, MayUndo
<1>. HIDE DEF c, user
<1>6. /\ app' \in [Devices -> App] /\ \A e \in Devices \ {d} : app'[e] = app[e]
      /\ app'[d].session = app[d].session /\ app'[d].token = app[d].token + 1
      /\ app'[d].leaving = app[d].leaving
  <2>1. app[d].token + 1 \in Tokens \ {0}
    BY <1>2 DEF App, Tokens
  <2>. QED
    BY <1>1, <1>2, <1>5, <2>1 DEF TypeOK, App
<1>7. /\ call' \in [Devices -> [Slots -> Call]]
      /\ \A e \in Devices \ {d} : call'[e] = call[e]
      /\ \A i \in Slots : \/ call'[d][i] = call[d][i]
                          \/ i \notin InFlight(d) /\ call'[d][i] = c
      /\ app[d].refresh # "none" => \E i \in Slots : call'[d][i] = c
  BY <1>1, <1>4, <1>5, NewCall DEF TypeOK
<1>8. TypeOK'
  BY <1>1, <1>5, <1>6, <1>7 DEF TypeOK
<1>9. \A e \in Devices \ {d} : Same(e)
  BY <1>5, <1>6, <1>7 DEF Same
<1>10. \A i \in Slots \ InFlight(d) : call[d][i] = NoCall
  BY <1>1 DEF DInv, LeavesOnce, Sound, InFlight
<1>11. Known(d)'
  <2>1. app[d].token \in Nat /\ row[d].token \in Nat /\ \A i \in Slots : call[d][i].token \in Nat
    BY <1>1, <1>2 DEF TypeOK, App, Row, Call, Tokens
  <2>. QED
    <3>1. row'[d].token <= app'[d].token
      BY <1>1, <1>5, <1>6, <2>1 DEF DInv, Known
    <3>2. \A i \in Slots : call'[d][i].token <= app'[d].token
      <4>. TAKE i \in Slots
      <4>1. call'[d][i] = call[d][i] \/ call'[d][i] = c
        BY <1>7
      <4>2. call[d][i].token <= app[d].token /\ call[d][i].token \in Nat
        BY <1>1, <2>1 DEF DInv, Known
      <4>. QED
        BY <1>4, <1>6, <2>1, <4>1, <4>2
    <3>3. /\ \A t \in Tokens : <<d, t>> \in push' => t <= app'[d].token
          /\ \A t \in Tokens : <<d, t>> \in rejected' => t < app'[d].token
      BY <1>1, <1>5, <1>6, <2>1 DEF DInv, Known, Tokens
    <3>. QED
      BY <3>1, <3>2, <3>3 DEF Known
<1>12. LeavesOnce(d)'
  BY <1>1, <1>4, <1>5, <1>6, <1>7, <1>10, LeavesOnceKept DEF DInv, Sound, Ending, NoCall
<1>13. Unlinked(d)'
  BY <1>1, <1>3, <1>4, <1>5, <1>6, <1>7 DEF DInv, Unlinked
<1>14. Reached(d)'
  <2>. SUFFICES ASSUME d \notin stray', app[d].session # None, ~app[d].leaving
                PROVE  Reached(d)'
    BY <1>6 DEF Reached
  <2>1. InFlight(d) = {} /\ app[d].refresh # "none" /\ d \notin stray
    BY <1>5
  <2>2. row[d].user = app[d].session
    BY <1>1, <2>1 DEF DInv, Reached
  <2>. QED
    BY <1>3, <1>4, <1>5, <1>6, <1>7, <2>1, <2>2 DEF Reached, InFlight
<1>. QED
  BY <1>8, <1>9, <1>11, <1>12, <1>13, <1>14, StepOf DEF DInv

-----------------------------------------------------------------------------
(* Answers *)

\* A call ends the log-out it is part of, if it does.
Ended(c, ok) == c.then = "clear" \/ (c.then = "relaunch" /\ ~ok)

LEMMA AnswerApp ==
    ASSUME NEW d \in Devices, NEW i \in Slots, NEW ok \in BOOLEAN, TypeOK, Answer(d, i, ok)
    PROVE  /\ app' \in [Devices -> App]
           /\ \A e \in Devices \ {d} : app'[e] = app[e]
           /\ app'[d].token = app[d].token
           /\ app'[d].session = IF Ended(call[d][i], ok) THEN None ELSE app[d].session
           /\ app'[d].leaving = IF Ended(call[d][i], ok) THEN FALSE ELSE app[d].leaving
<1>1. app[d] \in App /\ call[d][i].then \in {"nothing", "bindGuest", "bindUser", "relaunch", "clear"}
  BY DEF TypeOK, Call
<1>. DEFINE a == app'[d]
<1>2. app' = [app EXCEPT ![d] = a]
  BY DEF Answer, TypeOK
<1>3. /\ a.refresh \in {"none", "guest", "user"} /\ a.token = app[d].token
      /\ a.session = IF Ended(call[d][i], ok) THEN None ELSE app[d].session
      /\ a.leaving = IF Ended(call[d][i], ok) THEN FALSE ELSE app[d].leaving
      /\ a \in App
  BY <1>1 DEF Answer, TypeOK, Ended, App
<1>. HIDE DEF a
<1>. QED
  BY <1>2, <1>3 DEF TypeOK

\* What becomes of the call that was answered.
LEMMA ContinueCall ==
    ASSUME NEW d \in Devices, NEW i \in Slots, NEW ok \in BOOLEAN, TypeOK, Continue(d, i, ok)
    PROVE  /\ call' \in [Devices -> [Slots -> Call]]
           /\ \A e \in Devices \ {d} : call'[e] = call[e]
           /\ \A j \in Slots \ {i} : call'[d][j] = call[d][j]
           /\ IF ok /\ call[d][i].then = "relaunch"
              THEN /\ call'[d][i].kind = "register" /\ call'[d][i].user = None
                   /\ call'[d][i].token = app[d].token /\ call'[d][i].then = "clear"
              ELSE call'[d][i] = NoCall
<1>. DEFINE c == RegisterCall(d, None, None, "clear")
<1>1. /\ c \in Call /\ c.kind = "register" /\ c.user = None
      /\ c.token = app[d].token /\ c.then = "clear"
  BY RegisterCallType
<1>2. NoCall \in Call
  BY DeviceAssumption DEF NoCall, Call, Tokens
<1>3. call' = [call EXCEPT ![d][i] = IF ok /\ call[d][i].then = "relaunch" THEN c ELSE NoCall]
  BY DEF Continue
<1>. HIDE DEF c
<1>. QED
  BY <1>1, <1>2, <1>3 DEF TypeOK

\* A log-out ends with the call that ends it, and goes on with the one that follows.
LEMMA LeavesOnceAnswered ==
    ASSUME NEW d \in Devices, NEW i \in Slots, NEW ok \in BOOLEAN, TypeOK, LeavesOnce(d),
           Answer(d, i, ok), Continue(d, i, ok)
    PROVE  LeavesOnce(d)'
<1>1. ASSUME NEW j \in Slots PROVE Sound(call'[d][j])
  <2>1. CASE j # i
    BY <2>1, ContinueCall DEF LeavesOnce
  <2>2. CASE j = i /\ ok /\ call[d][i].then = "relaunch"
    BY <2>2, ContinueCall DEF Sound
  <2>3. CASE j = i /\ ~(ok /\ call[d][i].then = "relaunch")
    <3>1. call'[d][i] = NoCall
      BY <2>3, ContinueCall
    <3>. QED
      BY <2>3, <3>1 DEF Sound, NoCall
  <2>. QED
    BY <2>1, <2>2, <2>3
<1>2. /\ \A j \in Slots \ {i} : Ending(call'[d][j]) <=> Ending(call[d][j])
      /\ Ending(call'[d][i]) <=> ok /\ call[d][i].then = "relaunch"
  BY ContinueCall DEF Ending, NoCall
<1>3. Ended(call[d][i], ok) <=> Ending(call[d][i]) /\ ~(ok /\ call[d][i].then = "relaunch")
  BY DEF Ended, Ending
<1>4. /\ app'[d].session = IF Ended(call[d][i], ok) THEN None ELSE app[d].session
      /\ app'[d].leaving = IF Ended(call[d][i], ok) THEN FALSE ELSE app[d].leaving
  BY AnswerApp
<1>5. /\ \A j, k \in Slots : Ending(call[d][j]) /\ Ending(call[d][k]) => j = k
      /\ app[d].leaving => app[d].session # None
      /\ app[d].leaving <=> \E j \in Slots : Ending(call[d][j])
  BY DEF LeavesOnce
<1>6. \A j \in Slots : Ending(call'[d][j]) => Ending(call[d][j])
  BY <1>2 DEF Ending
<1>7. app'[d].leaving <=> \E j \in Slots : Ending(call'[d][j])
  <2>1. CASE Ended(call[d][i], ok)
    <3>1. \A j \in Slots : ~Ending(call'[d][j])
      BY <2>1, <1>2, <1>3, <1>5
    <3>. QED
      BY <2>1, <3>1, <1>4
  <2>2. CASE ~Ended(call[d][i], ok)
    <3>1. Ending(call'[d][i]) <=> Ending(call[d][i])
      BY <2>2, <1>2, <1>3 DEF Ending
    <3>2. \A j \in Slots : Ending(call'[d][j]) <=> Ending(call[d][j])
      BY <3>1, <1>2
    <3>. QED
      BY <2>2, <3>2, <1>4, <1>5
  <2>. QED
    BY <2>1, <2>2
<1>8. app'[d].leaving => app'[d].session # None
  BY <1>4, <1>5
<1>9. \A j, k \in Slots : Ending(call'[d][j]) /\ Ending(call'[d][k]) => j = k
  BY <1>5, <1>6
<1>. QED
  BY <1>1, <1>7, <1>8, <1>9 DEF LeavesOnce, Sound, Ending

-----------------------------------------------------------------------------
(* The network and the server *)

LEMMA LoseInv == ASSUME IInv, NEW d \in Devices, NEW i \in Slots, Lose(d, i) PROVE IInv'
<1>. USE DeviceAssumption
<1>1. TypeOK /\ DInv(d)
  BY DEF IInv
<1>2. /\ Answer(d, i, FALSE) /\ Continue(d, i, FALSE)
      /\ stray' = stray \cup {d}
      /\ undone' = IF call[d][i].kind = "unregister" THEN undone \cup {d} ELSE undone
      /\ UNCHANGED <<row, push, rejected>>
  BY DEF Lose
<1>3. /\ app' \in [Devices -> App] /\ \A e \in Devices \ {d} : app'[e] = app[e]
      /\ app'[d].token = app[d].token
      /\ app'[d].session = IF Ended(call[d][i], FALSE) THEN None ELSE app[d].session
      /\ app'[d].leaving = IF Ended(call[d][i], FALSE) THEN FALSE ELSE app[d].leaving
  BY <1>1, <1>2, AnswerApp
<1>4. /\ call' \in [Devices -> [Slots -> Call]]
      /\ \A e \in Devices \ {d} : call'[e] = call[e]
      /\ \A j \in Slots : call'[d][j] \in {call[d][j], NoCall}
  BY <1>1, <1>2, ContinueCall
<1>5. TypeOK'
  BY <1>1, <1>2, <1>3, <1>4 DEF TypeOK
<1>6. \A e \in Devices \ {d} : Same(e)
  BY <1>2, <1>3, <1>4 DEF Same
<1>7. Known(d)'
  <2>1. app[d].token \in Nat
    BY <1>1 DEF TypeOK, App, Tokens
  <2>. QED
    BY <1>1, <1>2, <1>3, <1>4, <2>1 DEF DInv, Known, NoCall
<1>8. LeavesOnce(d)'
  BY <1>1, <1>2, LeavesOnceAnswered DEF DInv
<1>9. Unlinked(d)'
  <2>1. \A j \in Slots : /\ call[d][j].then = "relaunch" => call[d][j].kind = "unregister"
                         /\ call[d][j].then = "clear" => app[d].leaving
    BY <1>1 DEF DInv, LeavesOnce, Sound, Ending
  <2>. SUFFICES ASSUME d \notin undone'
                PROVE  /\ app'[d].session = None \/ app'[d].leaving
                            => \A j \in Slots : call'[d][j].user = None
                       /\ app'[d].session = None => row'[d].user = None
                       /\ \A j \in Slots : call'[d][j].then = "clear" => row'[d].user = None
    BY DEF Unlinked
  <2>2. d \notin undone /\ call[d][i].kind # "unregister"
    BY <1>2
  <2>3. /\ app[d].session = None \/ app[d].leaving => \A j \in Slots : call[d][j].user = None
        /\ app[d].session = None => row[d].user = None
        /\ \A j \in Slots : call[d][j].then = "clear" => row[d].user = None
    BY <1>1, <2>2 DEF DInv, Unlinked
  <2>4. \A j \in Slots : /\ call[d][j].user = None => call'[d][j].user = None
                         /\ call'[d][j].then = "clear" => call[d][j].then = "clear"
    BY <1>4 DEF NoCall
  <2>5. CASE Ended(call[d][i], FALSE)
    <3>1. call[d][i].then = "clear" /\ app[d].leaving
      BY <2>1, <2>2, <2>5 DEF Ended
    <3>2. row[d].user = None /\ \A j \in Slots : call[d][j].user = None
      BY <2>3, <3>1
    <3>. QED
      BY <1>2, <2>4, <3>2
  <2>6. CASE ~Ended(call[d][i], FALSE)
    <3>1. app'[d].session = app[d].session /\ app'[d].leaving = app[d].leaving
      BY <1>3, <2>6
    <3>. QED
      BY <1>2, <2>3, <2>4, <3>1
  <2>. QED
    BY <2>5, <2>6
<1>10. Reached(d)'
  BY <1>2 DEF Reached
<1>. QED
  BY <1>5, <1>6, <1>7, <1>8, <1>9, <1>10, StepOf DEF DInv

LEMMA TimeOutInv == ASSUME IInv, NEW d \in Devices, NEW i \in Slots, TimeOut(d, i) PROVE IInv'
<1>. USE DeviceAssumption
<1>. DEFINE c == [call[d][i] EXCEPT !.then = "nothing"]
<1>1. TypeOK /\ DInv(d)
  BY DEF IInv
<1>2. /\ Answer(d, i, FALSE) /\ call' = [call EXCEPT ![d][i].then = "nothing"]
      /\ call[d][i].kind # "none"
      /\ stray' = stray \cup {d}
      /\ undone' = IF call[d][i].kind = "unregister" THEN undone \cup {d} ELSE undone
      /\ UNCHANGED <<row, push, rejected>>
  BY DEF TimeOut
<1>3. /\ app' \in [Devices -> App] /\ \A e \in Devices \ {d} : app'[e] = app[e]
      /\ app'[d].token = app[d].token
      /\ app'[d].session = IF Ended(call[d][i], FALSE) THEN None ELSE app[d].session
      /\ app'[d].leaving = IF Ended(call[d][i], FALSE) THEN FALSE ELSE app[d].leaving
  BY <1>1, <1>2, AnswerApp
<1>4. /\ c \in Call /\ c.then = "nothing" /\ c.kind = call[d][i].kind
      /\ c.user = call[d][i].user /\ c.token = call[d][i].token
  <2>1. call[d][i] \in Call
    BY <1>1 DEF TypeOK
  <2>. QED
    BY <2>1 DEF Call
<1>5. call' = [call EXCEPT ![d][i] = c]
  BY <1>2
<1>. HIDE DEF c
<1>6. /\ call' \in [Devices -> [Slots -> Call]]
      /\ \A e \in Devices \ {d} : call'[e] = call[e]
      /\ call'[d][i] = c
      /\ \A j \in Slots \ {i} : call'[d][j] = call[d][j]
  BY <1>1, <1>4, <1>5 DEF TypeOK
<1>7. TypeOK'
  BY <1>1, <1>2, <1>3, <1>6 DEF TypeOK
<1>8. \A e \in Devices \ {d} : Same(e)
  BY <1>2, <1>3, <1>6 DEF Same
<1>9. Known(d)'
  BY <1>1, <1>2, <1>3, <1>4, <1>6 DEF DInv, Known
<1>10. LeavesOnce(d)'
  <2>1. \A j \in Slots : Sound(call'[d][j])
    BY <1>1, <1>2, <1>4, <1>6 DEF DInv, LeavesOnce, Sound
  <2>2. ~Ending(c) /\ (Ended(call[d][i], FALSE) <=> Ending(call[d][i]))
    BY <1>4 DEF Ending, Ended
  <2>3. /\ \A j, k \in Slots : Ending(call[d][j]) /\ Ending(call[d][k]) => j = k
        /\ app[d].leaving => app[d].session # None
        /\ app[d].leaving <=> \E j \in Slots : Ending(call[d][j])
    BY <1>1 DEF DInv, LeavesOnce
  <2>4. \A j \in Slots : Ending(call'[d][j]) <=> j # i /\ Ending(call[d][j])
    BY <1>6, <2>2
  <2>5. app'[d].leaving <=> \E j \in Slots : Ending(call'[d][j])
    BY <1>3, <2>2, <2>3, <2>4
  <2>6. app'[d].leaving => app'[d].session # None
    BY <1>3, <2>3
  <2>7. \A j, k \in Slots : Ending(call'[d][j]) /\ Ending(call'[d][k]) => j = k
    BY <2>3, <2>4
  <2>. QED
    BY <2>1, <2>5, <2>6, <2>7 DEF LeavesOnce, Sound, Ending
<1>11. Unlinked(d)'
  <2>1. \A j \in Slots : /\ call[d][j].then = "relaunch" => call[d][j].kind = "unregister"
                         /\ call[d][j].then = "clear" => app[d].leaving
    BY <1>1 DEF DInv, LeavesOnce, Sound, Ending
  <2>. QED
    BY <1>1, <1>2, <1>3, <1>4, <1>6, <2>1 DEF DInv, Unlinked, Ended
<1>12. Reached(d)'
  BY <1>2 DEF Reached
<1>. QED
  BY <1>7, <1>8, <1>9, <1>10, <1>11, <1>12, StepOf DEF DInv

LEMMA RegisterInv == ASSUME IInv, NEW d \in Devices, NEW i \in Slots, Register(d, i) PROVE IInv'
<1>. USE DeviceAssumption
<1>. DEFINE c == call[d][i]
            new == [present |-> TRUE, user |-> Given(c.user, None, row[d].user),
                    phone |-> Given(c.phone, None, row[d].phone),
                    token |-> Given(c.token, 0, row[d].token)]
<1>1. TypeOK /\ DInv(d)
  BY DEF IInv
<1>2. /\ Answer(d, i, TRUE) /\ Continue(d, i, TRUE)
      /\ c.kind = "register" /\ row' = [row EXCEPT ![d] = new]
      /\ UNCHANGED <<push, rejected, stray, undone>>
  BY DEF Register, history
<1>3. c.then # "relaunch" /\ (Ended(c, TRUE) <=> c.then = "clear")
  BY <1>1, <1>2 DEF DInv, LeavesOnce, Sound, Ended
<1>4. /\ app' \in [Devices -> App] /\ \A e \in Devices \ {d} : app'[e] = app[e]
      /\ app'[d].token = app[d].token
      /\ app'[d].session = IF c.then = "clear" THEN None ELSE app[d].session
      /\ app'[d].leaving = IF c.then = "clear" THEN FALSE ELSE app[d].leaving
  BY <1>1, <1>2, <1>3, AnswerApp
<1>5. /\ call' \in [Devices -> [Slots -> Call]]
      /\ \A e \in Devices \ {d} : call'[e] = call[e]
      /\ call'[d][i] = NoCall
      /\ \A j \in Slots \ {i} : call'[d][j] = call[d][j]
  BY <1>1, <1>2, <1>3, ContinueCall
<1>6. c \in Call /\ row[d] \in Row
  BY <1>1 DEF TypeOK
<1>7. /\ new \in Row /\ new.present
      /\ new.user = (IF c.user = None THEN row[d].user ELSE c.user)
      /\ new.token = (IF c.token = 0 THEN row[d].token ELSE c.token)
  BY <1>6 DEF Row, Call, Given
<1>. HIDE DEF c, new
<1>8. /\ row' \in [Devices -> Row] /\ row'[d] = new
      /\ \A e \in Devices \ {d} : row'[e] = row[e]
  BY <1>1, <1>2, <1>7 DEF TypeOK
<1>9. TypeOK'
  BY <1>1, <1>2, <1>4, <1>5, <1>7, <1>8 DEF TypeOK
<1>10. \A e \in Devices \ {d} : Same(e)
  BY <1>2, <1>4, <1>5, <1>8 DEF Same
<1>11. Known(d)'
  <2>1. app[d].token \in Nat
    BY <1>1 DEF TypeOK, App, Tokens
  <2>2. NoCall.token = 0
    BY DEF NoCall
  <2>. QED
    BY <1>1, <1>2, <1>4, <1>5, <1>7, <1>8, <2>1, <2>2 DEF DInv, Known, c
<1>12. LeavesOnce(d)'
  BY <1>1, <1>2, LeavesOnceAnswered DEF DInv
<1>13. Unlinked(d)'
  <2>. SUFFICES ASSUME d \notin undone PROVE Unlinked(d)'
    BY <1>2 DEF Unlinked
  <2>1. \A j \in Slots : call[d][j].then = "clear" =>
                           app[d].leaving /\ call[d][j].user = None
    BY <1>1 DEF DInv, LeavesOnce, Sound, Ending
  <2>2. app'[d].session = None \/ app'[d].leaving => app[d].session = None \/ app[d].leaving
    BY <1>4, <2>1 DEF c
  <2>3. app'[d].session = None \/ app'[d].leaving => \A j \in Slots : call'[d][j].user = None
    BY <1>1, <1>5, <2>2 DEF DInv, Unlinked, NoCall
  <2>4. app[d].session = None \/ app[d].leaving => row'[d].user = row[d].user
    BY <1>1, <1>7, <1>8 DEF DInv, Unlinked, c
  <2>5. app'[d].session = None => row'[d].user = None
    BY <1>1, <1>4, <2>1, <2>4 DEF DInv, Unlinked, c
  <2>6. ASSUME NEW j \in Slots, call'[d][j].then = "clear" PROVE row'[d].user = None
    BY <1>1, <1>5, <2>1, <2>4, <2>6 DEF DInv, Unlinked, NoCall
  <2>. QED
    BY <2>3, <2>5, <2>6 DEF Unlinked
<1>14. Reached(d)'
  <2>. SUFFICES ASSUME d \notin stray, app'[d].session # None, ~app'[d].leaving
                PROVE  Reached(d)'
    BY <1>2 DEF Reached
  <2>1. app[d].session # None /\ ~app[d].leaving /\ app'[d].session = app[d].session
    BY <1>4
  <2>2. i \in InFlight(d) /\ InFlight(d)' = InFlight(d) \ {i}
    BY <1>2, <1>5 DEF InFlight, NoCall, c
  <2>3. /\ c.token = app[d].token /\ c.user \in {None, app[d].session}
        /\ \/ row[d].user = app[d].session
           \/ \E j \in InFlight(d) : call[d][j].user = app[d].session
        /\ \A j \in InFlight(d) : /\ call[d][j].kind = "register"
                                  /\ call[d][j].token = app[d].token
                                  /\ call[d][j].user \in {None, app[d].session}
    BY <1>1, <2>1, <2>2 DEF DInv, Reached, c
  <2>4. row'[d].token = app'[d].token
    <3>1. app[d].token # 0
      BY <1>1 DEF TypeOK, App
    <3>. QED
      BY <1>4, <1>7, <1>8, <2>3, <3>1
  <2>5. \/ row'[d].user = app[d].session
        \/ \E j \in InFlight(d)' : call'[d][j].user = app[d].session
    BY <1>5, <1>7, <1>8, <2>1, <2>2, <2>3 DEF InFlight, c
  <2>6. \A j \in InFlight(d)' : call'[d][j] = call[d][j]
    BY <1>5, <2>2 DEF InFlight
  <2>. QED
    BY <1>4, <2>1, <2>2, <2>3, <2>4, <2>5, <2>6 DEF Reached
<1>. QED
  BY <1>9, <1>10, <1>11, <1>12, <1>13, <1>14, StepOf DEF DInv

\* A log-out's call that was served: its row is cleared, or there was none.
LEMMA ServedInv ==
    ASSUME IInv, NEW d \in Devices, NEW i \in Slots, call[d][i].kind = "unregister",
           Answer(d, i, TRUE), Continue(d, i, TRUE),
           UNCHANGED <<push, rejected, stray, undone>>,
           row' \in [Devices -> Row], \A e \in Devices \ {d} : row'[e] = row[e],
           row'[d].token = 0, row'[d].user = None, ~row'[d].present => row'[d] = NoRow
    PROVE  IInv'
<1>. USE DeviceAssumption
<1>1. TypeOK /\ DInv(d)
  BY DEF IInv
<1>2. call[d][i].then # "clear" /\ ~Ended(call[d][i], TRUE)
  BY <1>1 DEF DInv, LeavesOnce, Sound, Ended
<1>3. /\ app' \in [Devices -> App] /\ \A e \in Devices \ {d} : app'[e] = app[e]
      /\ app'[d].token = app[d].token
      /\ app'[d].session = app[d].session /\ app'[d].leaving = app[d].leaving
  BY <1>1, <1>2, AnswerApp
<1>4. /\ call' \in [Devices -> [Slots -> Call]]
      /\ \A e \in Devices \ {d} : call'[e] = call[e]
      /\ \A j \in Slots \ {i} : call'[d][j] = call[d][j]
      /\ call'[d][i].user = None
      /\ call'[d][i].token \in {0, app[d].token}
  <2>1. NoCall.user = None /\ NoCall.token = 0
    BY DEF NoCall
  <2>. QED
    BY <1>1, <2>1, ContinueCall
<1>5. TypeOK'
  BY <1>1, <1>3, <1>4 DEF TypeOK
<1>6. \A e \in Devices \ {d} : Same(e)
  BY <1>3, <1>4 DEF Same
<1>7. Known(d)'
  <2>1. app[d].token \in Nat
    BY <1>1 DEF TypeOK, App, Tokens
  <2>. QED
    BY <1>1, <1>3, <1>4, <2>1 DEF DInv, Known
<1>8. LeavesOnce(d)'
  BY <1>1, LeavesOnceAnswered DEF DInv
<1>9. Unlinked(d)'
  BY <1>1, <1>3, <1>4 DEF DInv, Unlinked
<1>10. Reached(d)'
  BY <1>1, <1>3 DEF DInv, Reached, InFlight
<1>. QED
  BY <1>5, <1>6, <1>7, <1>8, <1>9, <1>10, StepOf DEF DInv

LEMMA FindDeviceInv ==
    ASSUME IInv, NEW d \in Devices, NEW i \in Slots, FindDevice(d, i) PROVE IInv'
<1>1. TypeOK /\ DInv(d) /\ call[d][i].kind = "unregister"
  BY DEF IInv, FindDevice
<1>2. UNCHANGED <<row, push, rejected, stray, undone>>
  BY DEF FindDevice, history
<1>3. CASE ~row[d].present
  <2>1. Answer(d, i, TRUE) /\ Continue(d, i, TRUE)
    BY <1>3 DEF FindDevice
  <2>2. row[d] = NoRow /\ NoRow.token = 0 /\ NoRow.user = None
    BY <1>1, <1>3 DEF TypeOK, NoRow
  <2>. QED
    BY <1>1, <1>2, <2>1, <2>2, ServedInv DEF TypeOK
<1>4. CASE row[d].present
  <2>. DEFINE c == [call[d][i] EXCEPT !.found = TRUE]
  <2>1. call' = [call EXCEPT ![d][i] = c] /\ UNCHANGED app
    BY <1>4 DEF FindDevice
  <2>2. /\ c \in Call /\ c.kind = call[d][i].kind /\ c.user = call[d][i].user
        /\ c.token = call[d][i].token /\ c.then = call[d][i].then
    <3>1. call[d][i] \in Call
      BY <1>1 DEF TypeOK
    <3>. QED
      BY <3>1 DEF Call
  <2>. HIDE DEF c
  <2>3. /\ call' \in [Devices -> [Slots -> Call]]
        /\ \A e \in Devices \ {d} : call'[e] = call[e]
        /\ call'[d][i] = c
        /\ \A j \in Slots \ {i} : call'[d][j] = call[d][j]
    BY <1>1, <2>1, <2>2 DEF TypeOK
  <2>4. TypeOK' /\ \A e \in Devices \ {d} : Same(e)
    BY <1>1, <1>2, <2>1, <2>3 DEF TypeOK, Same
  <2>5. Known(d)'
    BY <1>1, <1>2, <2>1, <2>2, <2>3 DEF DInv, Known
  <2>6. LeavesOnce(d)'
    <3>1. \A j \in Slots : /\ Sound(call'[d][j])
                           /\ Ending(call'[d][j]) <=> Ending(call[d][j])
      BY <1>1, <2>2, <2>3 DEF DInv, LeavesOnce, Sound, Ending
    <3>. QED
      BY <1>1, <2>1, <3>1 DEF DInv, LeavesOnce, Sound, Ending
  <2>7. Unlinked(d)'
    BY <1>1, <1>2, <2>1, <2>2, <2>3 DEF DInv, Unlinked
  <2>8. Reached(d)'
    <3>1. i \in InFlight(d)
      BY <1>1 DEF InFlight
    <3>. QED
      BY <1>1, <1>2, <2>1, <3>1 DEF DInv, Reached
  <2>. QED
    BY <2>4, <2>5, <2>6, <2>7, <2>8, StepOf DEF DInv
<1>. QED
  BY <1>3, <1>4

LEMMA ClearDeviceInv ==
    ASSUME IInv, NEW d \in Devices, NEW i \in Slots, ClearDevice(d, i) PROVE IInv'
<1>. DEFINE new == [row[d] EXCEPT !.token = 0, !.user = None, !.phone = None]
<1>1. TypeOK
  BY DEF IInv
<1>2. row[d] \in Row /\ (~row[d].present => row[d] = NoRow)
  BY <1>1 DEF TypeOK
<1>3. new \in Row /\ new.token = 0 /\ new.user = None /\ (~new.present => new = NoRow)
  <2>1. 0 \in Tokens
    BY DeviceAssumption DEF Tokens
  <2>2. new \in Row /\ new.token = 0 /\ new.user = None
    BY <1>2, <2>1 DEF Row, NoRow
  <2>3. new.phone = None /\ (~new.present => ~row[d].present)
    BY <1>2 DEF Row
  <2>4. NoRow \in Row /\ NoRow.token = 0 /\ NoRow.user = None /\ NoRow.phone = None /\ ~NoRow.present
    BY <2>1 DEF Row, NoRow
  <2>. HIDE DEF new
  <2>5. ~new.present => new = NoRow
    BY <2>2, <2>3, <2>4 DEF Row
  <2>. QED
    BY <2>2, <2>5
<1>4. row' = [row EXCEPT ![d] = new]
  BY <1>1 DEF ClearDevice, TypeOK
<1>. HIDE DEF new
<1>5. /\ row' \in [Devices -> Row] /\ row'[d] = new
      /\ \A e \in Devices \ {d} : row'[e] = row[e]
  <2>1. row \in [Devices -> Row] /\ new \in Row
    BY <1>1, <1>3 DEF TypeOK
  <2>. QED
    BY <1>4, <2>1, UpdatedAt
<1>6. /\ call[d][i].kind = "unregister" /\ Answer(d, i, TRUE) /\ Continue(d, i, TRUE)
      /\ UNCHANGED <<push, rejected, stray, undone>>
  BY DEF ClearDevice, history
<1>7. row'[d].token = 0 /\ row'[d].user = None /\ (~row'[d].present => row'[d] = NoRow)
  BY <1>3, <1>5
<1>. QED
  BY <1>5, <1>6, <1>7, ServedInv

LEMMA LinkDevicePhoneInv ==
    ASSUME IInv, NEW d \in Devices, NEW u \in Users, LinkDevicePhone(d, u) PROVE IInv'
<1>. DEFINE new == [row[d] EXCEPT !.phone = u]
<1>1. TypeOK /\ DInv(d) /\ row[d] \in Row /\ row[d].present
  BY DEF IInv, TypeOK, LinkDevicePhone
<1>2. new \in Row /\ new.present /\ new.user = row[d].user /\ new.token = row[d].token
  BY <1>1 DEF Row
<1>3. row' = [row EXCEPT ![d] = new] /\ UNCHANGED <<app, call, push, rejected, stray, undone>>
  BY DEF LinkDevicePhone, history
<1>. HIDE DEF new
<1>4. /\ row' \in [Devices -> Row] /\ row'[d] = new
      /\ \A e \in Devices \ {d} : row'[e] = row[e]
  BY <1>1, <1>2, <1>3 DEF TypeOK
<1>5. TypeOK' /\ \A e \in Devices \ {d} : Same(e)
  BY <1>1, <1>2, <1>3, <1>4 DEF TypeOK, Same
<1>6. Known(d)' /\ LeavesOnce(d)'
  BY <1>1, <1>2, <1>3, <1>4 DEF DInv, Known, LeavesOnce, Sound, Ending
<1>7. Unlinked(d)' /\ Reached(d)'
  BY <1>1, <1>2, <1>3, <1>4 DEF DInv, Unlinked, Reached, InFlight
<1>. QED
  BY <1>5, <1>6, <1>7, StepOf DEF DInv

LEMMA CollectInv == ASSUME IInv, NEW u \in Users, Collect(u) PROVE IInv'
<1>1. /\ push' = push \cup {<<d, row[d].token>> :
                            d \in {e \in Devices : row[e].token # 0 /\ u \in {row[e].user,
                                                                              row[e].phone}}}
      /\ UNCHANGED <<app, call, row, rejected, stray, undone>>
  BY DEF Collect, history
<1>2. TypeOK
  BY DEF IInv
<1>3. push' \in SUBSET (Devices \X Tokens)
  BY <1>1, <1>2 DEF TypeOK, Row
<1>4. TypeOK'
  BY <1>1, <1>2, <1>3 DEF TypeOK
<1>5. ASSUME NEW d \in Devices PROVE DInv(d)'
  <2>1. DInv(d)
    BY DEF IInv
  <2>2. \A t \in Tokens : <<d, t>> \in push' => <<d, t>> \in push \/ t = row[d].token
    BY <1>1
  <2>3. Known(d)' /\ LeavesOnce(d)'
    BY <1>1, <2>1, <2>2 DEF DInv, Known, LeavesOnce, Sound, Ending
  <2>4. Unlinked(d)' /\ Reached(d)'
    BY <1>1, <2>1 DEF DInv, Unlinked, Reached, InFlight
  <2>. QED
    BY <2>3, <2>4 DEF DInv
<1>. QED
  BY <1>4, <1>5 DEF IInv

LEMMA DeliverInv ==
    ASSUME IInv, NEW d \in Devices, NEW t \in Tokens, Deliver(d, t) PROVE IInv'
<1>1. TypeOK /\ DInv(d)
  BY DEF IInv
<1>2. /\ <<d, t>> \in push /\ push' = push \ {<<d, t>>}
      /\ rejected' = IF app[d].token = t THEN rejected ELSE rejected \cup {<<d, t>>}
      /\ UNCHANGED <<app, call, row, stray, undone>>
  BY DEF Deliver, history
<1>3. TypeOK' /\ \A e \in Devices \ {d} : Same(e)
  BY <1>1, <1>2 DEF TypeOK, Same
<1>4. Known(d)'
  <2>1. app[d].token \in Nat /\ \A x \in Tokens : x \in Nat
    BY <1>1, DeviceAssumption DEF TypeOK, App, Tokens
  <2>2. t <= app[d].token /\ (app[d].token # t => t < app[d].token)
    BY <1>1, <1>2, <2>1 DEF DInv, Known
  <2>3. \A x \in Tokens : <<d, x>> \in rejected' => x < app[d].token
    BY <1>1, <1>2, <2>2 DEF DInv, Known
  <2>. QED
    BY <1>1, <1>2, <2>3 DEF DInv, Known
<1>5. LeavesOnce(d)' /\ Unlinked(d)' /\ Reached(d)'
  BY <1>1, <1>2 DEF DInv, LeavesOnce, Sound, Ending, Unlinked, Reached, InFlight
<1>. QED
  BY <1>3, <1>4, <1>5, StepOf DEF DInv

LEMMA DropRejectedInv ==
    ASSUME IInv, NEW d \in Devices, NEW t \in Tokens, DropRejected(d, t) PROVE IInv'
<1>. USE DeviceAssumption
<1>. DEFINE new == [row[d] EXCEPT !.token = IF @ = t THEN 0 ELSE @]
<1>1. TypeOK /\ DInv(d) /\ row[d] \in Row /\ (~row[d].present => row[d] = NoRow)
  BY DEF IInv, TypeOK
<1>2. /\ <<d, t>> \in rejected /\ rejected' = rejected \ {<<d, t>>}
      /\ row' = [row EXCEPT ![d] = new]
      /\ UNCHANGED <<app, call, push, stray, undone>>
  BY <1>1 DEF DropRejected, history, TypeOK
<1>3. t < app[d].token /\ app[d].token \in Nat
  BY <1>1, <1>2 DEF DInv, Known, TypeOK, App, Tokens
<1>4. /\ new \in Row /\ new.user = row[d].user /\ new.phone = row[d].phone
      /\ new.present = row[d].present
      /\ new.token = IF row[d].token = t THEN 0 ELSE row[d].token
  BY <1>1 DEF Row, Tokens
<1>. HIDE DEF new
<1>5. ~new.present => new = NoRow
  <2>1. /\ NoRow \in Row /\ NoRow.token = 0 /\ NoRow.user = None /\ NoRow.phone = None
        /\ ~NoRow.present
    BY DEF Row, NoRow, Tokens
  <2>. QED
    BY <1>1, <1>4, <2>1 DEF Row
<1>6. /\ row' \in [Devices -> Row] /\ row'[d] = new
      /\ \A e \in Devices \ {d} : row'[e] = row[e]
  BY <1>1, <1>2, <1>4 DEF TypeOK
<1>7. TypeOK' /\ \A e \in Devices \ {d} : Same(e)
  BY <1>1, <1>2, <1>5, <1>6 DEF TypeOK, Same
<1>8. Known(d)'
  BY <1>1, <1>2, <1>3, <1>4, <1>6 DEF DInv, Known
<1>9. LeavesOnce(d)' /\ Unlinked(d)'
  BY <1>1, <1>2, <1>4, <1>6 DEF DInv, LeavesOnce, Sound, Ending, Unlinked
<1>10. Reached(d)'
  BY <1>1, <1>2, <1>3, <1>4, <1>6 DEF DInv, Reached, InFlight
<1>. QED
  BY <1>7, <1>8, <1>9, <1>10, StepOf DEF DInv

-----------------------------------------------------------------------------
(* The theorems *)

\* No step breaks the invariant, whatever overlaps and is lost.
LEMMA NextIInv == IInv /\ [Next]_vars => IInv'
<1>. SUFFICES ASSUME IInv, [Next]_vars PROVE IInv'
  OBVIOUS
<1>1. ASSUME NEW d \in Devices, AppStep(d) PROVE IInv'
  BY <1>1, ResumeInv, LoginInv, LogoutInv, SyncGuestPhoneInv, LinkDevicePhoneInv, RefreshTokenInv
     DEF AppStep
<1>2. ASSUME NEW d \in Devices, PushStep(d) PROVE IInv'
  BY <1>2, DeliverInv, DropRejectedInv DEF PushStep
<1>3. ASSUME NEW d \in Devices, NEW i \in Slots, CallStep(d, i) PROVE IInv'
  BY <1>3, RegisterInv, FindDeviceInv, ClearDeviceInv, LoseInv, TimeOutInv DEF CallStep
<1>4. ASSUME NEW u \in Users, Collect(u) PROVE IInv'
  BY <1>4, CollectInv
<1>5. CASE UNCHANGED vars
  <2>1. TypeOK'
    BY <1>5 DEF IInv, TypeOK, vars, history
  <2>2. \A d \in Devices : Same(d)
    BY <1>5 DEF Same, vars, history
  <2>. QED
    BY <2>1, <2>2, SameInv DEF IInv
<1>. QED
  BY <1>1, <1>2, <1>3, <1>4, <1>5 DEF Next

LEMMA InvariantHolds == Spec => []IInv
BY InitIInv, NextIInv, PTL DEF Spec

\* Every variable keeps its type, and a row that does not exist holds nothing, for any
\* number of installations and calls.
THEOREM DeviceTypes == Spec => []TypeOK
BY InvariantHolds, PTL DEF IInv

\* A customer who is logged in is reached on the installation, unless a call was lost or
\* crossed another since the app was last opened.
THEOREM CustomersReached == Spec => []LoggedInReached
<1>1. IInv => LoggedInReached
  BY DEF IInv, DInv, Reached, LoggedInReached
<1>. QED
  BY <1>1, InvariantHolds, PTL

\* After a log-out the installation names no customer, unless its call failed or was crossed.
THEOREM LogoutUnlinks == Spec => []LoggedOutUnlinked
<1>1. IInv => LoggedOutUnlinked
  BY DEF IInv, DInv, Unlinked, LoggedOutUnlinked
<1>. QED
  BY <1>1, InvariantHolds, PTL

\* Dropping a token Firebase refused never drops the one the installation has by then.
THEOREM RefusalsSpareTokens == Spec => TokensKept
<1>1. IInv /\ [Next]_vars => [WorkingTokenKept]_vars
  <2>. SUFFICES ASSUME IInv, Next, NEW d \in Devices,
                       row[d].token = app[d].token, row'[d].token = 0
                PROVE  \E i \in Slots : call[d][i].kind = "unregister"
    BY DEF WorkingTokenKept
  <2>. USE DeviceAssumption
  <2>1. TypeOK /\ Known(d)
    BY DEF IInv, DInv
  <2>2. row[d] \in Row /\ row[d].token # 0 /\ row[d].token \in Nat
    BY <2>1 DEF TypeOK, App, Tokens
  <2>3. row'[d] # row[d]
    BY <2>2
  <2>4. ASSUME NEW e \in Devices, AppStep(e) PROVE FALSE
    <3>1. row' = row \/ \E u \in Users : row' = [row EXCEPT ![e].phone = u]
      BY <2>4 DEF AppStep, Resume, Login, Logout, SyncGuestPhone, RefreshToken, LinkDevicePhone
    <3>. QED
      BY <2>1, <2>2, <3>1 DEF TypeOK, Row
  <2>5. ASSUME NEW e \in Devices, PushStep(e) PROVE FALSE
    <3>1. PICK t \in Tokens : Deliver(e, t) \/ DropRejected(e, t)
      BY <2>5 DEF PushStep
    <3>2. <<e, t>> \in rejected /\ row' = [row EXCEPT ![e].token = IF @ = t THEN 0 ELSE @]
      BY <2>3, <3>1 DEF Deliver, DropRejected
    <3>3. e = d /\ row[d].token = t
      BY <2>1, <2>2, <3>2 DEF TypeOK, Row
    <3>. QED
      BY <2>1, <2>2, <3>2, <3>3 DEF Known
  <2>6. ASSUME NEW e \in Devices, NEW i \in Slots, CallStep(e, i)
        PROVE  e = d /\ call[e][i].kind = "unregister"
    <3>1. Register(e, i) \/ ClearDevice(e, i)
      BY <2>3, <2>6 DEF CallStep, FindDevice, Lose, TimeOut
    <3>2. CASE Register(e, i)
      BY <2>1, <2>2, <3>2 DEF Register, TypeOK, Row, Given
    <3>3. CASE ClearDevice(e, i)
      BY <2>1, <2>3, <3>3 DEF ClearDevice, TypeOK
    <3>. QED
      BY <3>1, <3>2, <3>3
  <2>7. ASSUME NEW u \in Users, Collect(u) PROVE FALSE
    BY <2>3, <2>7 DEF Collect
  <2>. QED
    BY <2>4, <2>5, <2>6, <2>7 DEF Next
<1>. QED
  BY <1>1, InvariantHolds, PTL DEF Spec, TokensKept

=============================================================================
