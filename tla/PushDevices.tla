---------------------------- MODULE PushDevices ----------------------------
(***************************************************************************)
(* How a phone stays reachable by push: the customer app's                 *)
(* device_registration_service.dart, the user_devices rows that            *)
(* push-delivery.service.ts keeps, and base-push.provider.ts, which drops  *)
(* the tokens Firebase refuses.  Calls of one app run concurrently and may *)
(* be lost, or lose their answer.  A customer stands for its phone too.    *)
(***************************************************************************)
EXTENDS Naturals, FiniteSets

CONSTANTS
    Devices,    \* installations of the customer app
    Users,      \* customers
    MaxToken,   \* bound: the push tokens Firebase gives to one installation
    MaxCalls    \* bound: calls of one app in flight at a time

None == "none"

ASSUME DeviceAssumption ==
    /\ MaxToken \in Nat \ {0}
    /\ MaxCalls \in Nat \ {0}
    /\ None \notin Users

VARIABLES
    app,        \* installation -> what the app knows
    call,       \* installation, slot -> a call in flight
    row,        \* installation -> its row of user_devices (account type CUSTOMER)
    push,       \* messages handed to Firebase: installation and token
    rejected,   \* tokens Firebase refused and the server has not dropped yet
    stray,      \* installations with a call lost or crossed since a clean registration
    undone      \* installations with a call lost or crossed since a clean log-out

history == <<stray, undone>>
vars == <<app, call, row, push, rejected, history>>

Slots == 1 .. MaxCalls

Tokens == 0 .. MaxToken    \* 0: no token

\* refresh: who the bound token-refresh handler registers for.
App == [session : Users \cup {None}, token : Tokens \ {0}, leaving : BOOLEAN,
        refresh : {"none", "guest", "user"}]

\* then: what the app does with the answer.
Call == [kind : {"none", "register", "unregister"}, user : Users \cup {None},
         phone : Users \cup {None}, token : Tokens, found : BOOLEAN,
         then : {"nothing", "bindGuest", "bindUser", "relaunch", "clear"}]

NoCall == [kind |-> "none", user |-> None, phone |-> None, token |-> 0, found |-> FALSE,
           then |-> "nothing"]

Row == [present : BOOLEAN, user : Users \cup {None}, phone : Users \cup {None},
        token : Tokens]

NoRow == [present |-> FALSE, user |-> None, phone |-> None, token |-> 0]

-----------------------------------------------------------------------------
(* Helpers *)

InFlight(d) == {i \in Slots : call[d][i].kind # "none"}

RegisterCall(d, user, phone, then) ==
    [kind |-> "register", user |-> user, phone |-> phone, token |-> app[d].token,
     found |-> FALSE, then |-> then]

SendCall(d, c) == \E i \in Slots \ InFlight(d) : call' = [call EXCEPT ![d][i] = c]

\* A call that goes out while another is in flight may overtake it.
Crosses(d) == stray' = IF InFlight(d) = {} THEN stray ELSE stray \cup {d}

\* A call that registers all there is to know repairs the registration.
Repairs(d) == stray' = IF InFlight(d) = {} THEN stray \ {d} ELSE stray \cup {d}

\* A log-out is undone by a registration of the customer that the server takes later.
MayUndo(d, user) ==
    undone' = IF app[d].leaving /\ user # None THEN undone \cup {d} ELSE undone

-----------------------------------------------------------------------------
(* The app *)

\* _initPush, or back to the foreground: registerOnLaunch and registerAfterAuth, at once.
Resume(d) ==
    /\ IF app[d].session = None THEN SendCall(d, RegisterCall(d, None, None, "bindGuest"))
       ELSE \E i, j \in Slots \ InFlight(d) :
               /\ i # j
               /\ call' = [call EXCEPT
                      ![d][i] = RegisterCall(d, None, None, "bindGuest"),
                      ![d][j] = RegisterCall(d, app[d].session, None, "bindUser")]
    /\ Repairs(d) /\ MayUndo(d, app[d].session)
    /\ UNCHANGED <<app, row, push, rejected>>

\* _persist: the session is saved, then registerAfterAuth.
Login(d, u) ==
    /\ app[d].session = None
    /\ app' = [app EXCEPT ![d].session = u]
    /\ SendCall(d, RegisterCall(d, u, None, "bindUser"))
    /\ Repairs(d)
    /\ UNCHANGED <<row, push, rejected, undone>>

\* logout: unregisterOnLogout first, the stored session is cleared when that has ended.
Logout(d) ==
    /\ app[d].session # None /\ ~app[d].leaving
    /\ app' = [app EXCEPT ![d].leaving = TRUE]
    /\ SendCall(d, [NoCall EXCEPT !.kind = "unregister", !.then = "relaunch"])
    /\ Crosses(d)
    /\ undone' = IF \E i \in InFlight(d) : call[d][i].user # None
                 THEN undone \cup {d} ELSE undone \ {d}
    /\ UNCHANGED <<row, push, rejected>>

\* syncGuestPhone after an order was placed under the phone of u.
SyncGuestPhone(d, u) ==
    /\ SendCall(d, RegisterCall(d, None, u, "nothing"))
    /\ Crosses(d)
    /\ UNCHANGED <<app, row, push, rejected, undone>>

\* Firebase gives the installation another token; the one before is refused from now on.
\* The handler bound last registers it, for the stored session or as a guest.
RefreshToken(d) ==
    LET a == app[d]
        user == IF a.refresh = "user" THEN a.session ELSE None
    IN  /\ a.token < MaxToken
        /\ app' = [app EXCEPT ![d].token = @ + 1]
        /\ IF a.refresh = "none" THEN UNCHANGED call
           ELSE SendCall(d, [RegisterCall(d, user, None, "nothing") EXCEPT
                                !.token = a.token + 1])
        /\ stray' = IF InFlight(d) = {} /\ a.refresh # "none" THEN stray ELSE stray \cup {d}
        /\ MayUndo(d, user)
        /\ UNCHANGED <<row, push, rejected>>

\* What the app does with the answer to the call in slot i, or with its failure.
Answer(d, i, ok) ==
    LET then == call[d][i].then
        bind == CASE then = "bindUser" -> "user"
                  [] then \in {"bindGuest", "clear"} -> "guest"
                  [] OTHER -> app[d].refresh
        ended == then = "clear" \/ (then = "relaunch" /\ ~ok)
    IN  app' = [app EXCEPT ![d].refresh = IF ok THEN bind ELSE @,
                           ![d].session = IF ended THEN None ELSE @,
                           ![d].leaving = IF ended THEN FALSE ELSE @]

\* A log-out that was answered registers the installation as a guest's.
Continue(d, i, ok) ==
    call' = [call EXCEPT ![d][i] =
                IF ok /\ call[d][i].then = "relaunch" THEN RegisterCall(d, None, None, "clear")
                ELSE NoCall]

\* The request never reaches the server.
Lose(d, i) ==
    LET c == call[d][i]
    IN  /\ c.kind # "none" /\ ~c.found
        /\ Answer(d, i, FALSE)
        /\ Continue(d, i, FALSE)
        /\ stray' = stray \cup {d}
        /\ undone' = IF c.kind = "unregister" THEN undone \cup {d} ELSE undone
        /\ UNCHANGED <<row, push, rejected>>

\* The app gives up waiting; the server may still serve the call.
TimeOut(d, i) ==
    LET c == call[d][i]
    IN  /\ c.kind # "none" /\ c.then # "nothing"
        /\ Answer(d, i, FALSE)
        /\ call' = [call EXCEPT ![d][i].then = "nothing"]
        /\ stray' = stray \cup {d}
        /\ undone' = IF c.kind = "unregister" THEN undone \cup {d} ELSE undone
        /\ UNCHANGED <<row, push, rejected>>

-----------------------------------------------------------------------------
(* The server *)

\* A value that was not given leaves the column alone.
Given(new, none, old) == IF new = none THEN old ELSE new

\* Mutated form of Register: an existing row keeps the token it has.
RegisterOnce(d, i) ==
    LET c == call[d][i]
    IN  /\ c.kind = "register"
        /\ row' = [row EXCEPT ![d] =
                      [present |-> TRUE, user |-> Given(c.user, None, @.user),
                       phone |-> Given(c.phone, None, @.phone),
                       token |-> Given(@.token, 0, c.token)]]
        /\ Answer(d, i, TRUE)
        /\ Continue(d, i, TRUE)
        /\ UNCHANGED <<push, rejected, history>>

\* registerDevice: one upsert by installation and account type.
Register(d, i) ==
    LET c == call[d][i]
    IN  /\ c.kind = "register"
        /\ row' = [row EXCEPT ![d] =
                      [present |-> TRUE, user |-> Given(c.user, None, @.user),
                       phone |-> Given(c.phone, None, @.phone),
                       token |-> Given(c.token, 0, @.token)]]
        /\ Answer(d, i, TRUE)
        /\ Continue(d, i, TRUE)
        /\ UNCHANGED <<push, rejected, history>>

\* clearDevicePushToken looks for the row ...
FindDevice(d, i) ==
    /\ call[d][i].kind = "unregister" /\ ~call[d][i].found
    /\ IF row[d].present
       THEN call' = [call EXCEPT ![d][i].found = TRUE] /\ UNCHANGED app
       ELSE Answer(d, i, TRUE) /\ Continue(d, i, TRUE)
    /\ UNCHANGED <<row, push, rejected, history>>

\* Mutated form of ClearDevice: clearUserLink is not asked for.
ClearTokenOnly(d, i) ==
    /\ call[d][i].kind = "unregister" /\ call[d][i].found
    /\ row' = [row EXCEPT ![d].token = 0]
    /\ Answer(d, i, TRUE)
    /\ Continue(d, i, TRUE)
    /\ UNCHANGED <<push, rejected, history>>

\* ... and clears it by id, whatever it holds by now.
ClearDevice(d, i) ==
    /\ call[d][i].kind = "unregister" /\ call[d][i].found
    /\ row' = [row EXCEPT ![d].token = 0, ![d].user = None, ![d].phone = None]
    /\ Answer(d, i, TRUE)
    /\ Continue(d, i, TRUE)
    /\ UNCHANGED <<push, rejected, history>>

\* Mutated form of LinkDevicePhone: it does not look whether the row exists.
LinkAnyPhone(d, u) ==
    /\ row' = [row EXCEPT ![d].phone = u]
    /\ UNCHANGED <<app, call, push, rejected, history>>

\* An order placed on the installation links its row to the phone of the order.
LinkDevicePhone(d, u) ==
    /\ row[d].present
    /\ row' = [row EXCEPT ![d].phone = u]
    /\ UNCHANGED <<app, call, push, rejected, history>>

\* deliverNotification collects the tokens of the customer and of its phone.
Collect(u) ==
    /\ push' = push \cup {<<d, row[d].token>> :
                            d \in {e \in Devices : row[e].token # 0 /\ u \in {row[e].user,
                                                                              row[e].phone}}}
    /\ push' # push
    /\ UNCHANGED <<app, call, row, rejected, history>>

\* Firebase takes a message for the token the installation has, and refuses any other.
Deliver(d, t) ==
    /\ <<d, t>> \in push
    /\ push' = push \ {<<d, t>>}
    /\ rejected' = IF app[d].token = t THEN rejected ELSE rejected \cup {<<d, t>>}
    /\ UNCHANGED <<app, call, row, history>>

\* Mutated form of DropRejected: the token is dropped by row, not by value.
DropDevice(d, t) ==
    /\ <<d, t>> \in rejected
    /\ rejected' = rejected \ {<<d, t>>}
    /\ row' = [row EXCEPT ![d].token = 0]
    /\ UNCHANGED <<app, call, push, history>>

\* clearInvalidToken: by value, so a token registered since is kept.
DropRejected(d, t) ==
    /\ <<d, t>> \in rejected
    /\ rejected' = rejected \ {<<d, t>>}
    /\ row' = [row EXCEPT ![d].token = IF @ = t THEN 0 ELSE @]
    /\ UNCHANGED <<app, call, push, history>>

-----------------------------------------------------------------------------

Init ==
    /\ app = [d \in Devices |-> [session |-> None, token |-> 1, leaving |-> FALSE,
                                 refresh |-> "none"]]
    /\ call = [d \in Devices |-> [i \in Slots |-> NoCall]]
    /\ row = [d \in Devices |-> NoRow]
    /\ push = {} /\ rejected = {}
    /\ stray = {} /\ undone = {}

AppStep(d) ==
    \/ Resume(d)
    \/ \E u \in Users : Login(d, u) \/ SyncGuestPhone(d, u) \/ LinkDevicePhone(d, u)
    \/ Logout(d)
    \/ RefreshToken(d)

CallStep(d, i) ==
    \/ Register(d, i)
    \/ FindDevice(d, i)
    \/ ClearDevice(d, i)
    \/ Lose(d, i)
    \/ TimeOut(d, i)

PushStep(d) == \E t \in Tokens : Deliver(d, t) \/ DropRejected(d, t)

Next ==
    \/ \E d \in Devices : AppStep(d) \/ PushStep(d) \/ \E i \in Slots : CallStep(d, i)
    \/ \E u \in Users : Collect(u)

Spec == Init /\ [][Next]_vars

-----------------------------------------------------------------------------
(* Properties *)

\* Every variable keeps its type, and a row that does not exist holds nothing.
TypeOK ==
    /\ app \in [Devices -> App]
    /\ call \in [Devices -> [Slots -> Call]]
    /\ row \in [Devices -> Row]
    /\ push \in SUBSET (Devices \X Tokens) /\ rejected \in SUBSET (Devices \X Tokens)
    /\ stray \in SUBSET Devices /\ undone \in SUBSET Devices
    /\ \A d \in Devices : ~row[d].present => row[d] = NoRow

\* A customer who is logged in on an installation is reached there: the row names the
\* customer and holds the token Firebase takes, once no call is in flight, unless a call
\* was lost, timed out or crossed another since the app was last opened or logged in.
LoggedInReached ==
    \A d \in Devices \ stray :
        app[d].session # None /\ ~app[d].leaving /\ InFlight(d) = {} =>
            row[d].user = app[d].session /\ row[d].token = app[d].token

\* After a log-out the row of the installation names no customer, unless its call failed or
\* a registration of the customer was in flight with it.  Nothing is said of the phone: an
\* order links the row to its phone again, and that needs no log-in.
LoggedOutUnlinked ==
    \A d \in Devices \ undone :
        app[d].session = None /\ InFlight(d) = {} => row[d].user = None

\* Only a log-out takes a token that works: dropping a refused token never drops the one
\* the installation registered in the meantime.
WorkingTokenKept ==
    \A d \in Devices :
        row[d].token = app[d].token /\ row'[d].token = 0 =>
            \E i \in Slots : call[d][i].kind = "unregister"

TokensKept == [][WorkingTokenKept]_vars

=============================================================================
