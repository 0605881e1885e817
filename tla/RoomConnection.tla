--------------------------- MODULE RoomConnection ---------------------------
(***************************************************************************)
(* src/net/RoomConnection.js: the life of a client's socket.  One socket   *)
(* at a time: opening, open, being closed, closed and waiting to be opened *)
(* again.  The relay's side of an opening is a choice here: it may accept  *)
(* the socket, accept it only to say "try again later" (close code 1013),  *)
(* refuse it without a word (1006, no 'open' event), speak an incompatible *)
(* protocol, and cut it at any time.                                       *)
(*                                                                         *)
(* A client that leaves a room throws its connection away, and the next    *)
(* room gets a new one (connectToRoom, disconnectFromRoom in src/main.js): *)
(* the late 'close' of the old socket finds an object that is closing, and *)
(* nothing else.                                                           *)
(***************************************************************************)
EXTENDS Naturals, Sequences

CONSTANTS
  Clients,      \* the pages
  FastDelays,   \* RECONNECT_DELAYS_MS
  SlowDelays,   \* RETRY_LATER_DELAYS_MS
  MaxTroubles   \* bound: closes, asked for or not, over a behaviour

ASSUME ConnectionConstants ==
  /\ FastDelays \in Seq(Nat \ {0}) /\ FastDelays # <<>>
  /\ SlowDelays \in Seq(Nat \ {0}) /\ Len(SlowDelays) = Len(FastDelays)
  /\ \A i \in DOMAIN FastDelays : FastDelays[i] <= SlowDelays[i]
  /\ \A i, j \in DOMAIN FastDelays :
       i <= j => FastDelays[i] <= FastDelays[j] /\ SlowDelays[i] <= SlowDelays[j]
  /\ MaxTroubles \in Nat

VARIABLES
  sock,        \* "none", "connecting", "open", "closing" (by this client) or "closed"
  connected,   \* _connected
  closing,     \* _closing
  fatal,       \* _fatal # null
  tries,       \* _reconnectTries
  retryLater,  \* _retryLater
  retryIn,     \* the delay of _reconnectTimer, 0 when it is not set
  waited,      \* history: the last delay since a HELLO, 0 when there was none
  troubles     \* closes so far

connVars == <<sock, connected, closing, fatal, tries, retryLater, retryIn, waited, troubles>>

\* Close codes, as far as they are told apart.
TryAgain == "try again"     \* 1013
Permanent == "permanent"    \* 4010
Dropped == "dropped"        \* anything else

Reset(c) ==
  /\ sock' = [sock EXCEPT ![c] = "none"]
  /\ connected' = [connected EXCEPT ![c] = FALSE]
  /\ closing' = [closing EXCEPT ![c] = FALSE]
  /\ fatal' = [fatal EXCEPT ![c] = FALSE]
  /\ tries' = [tries EXCEPT ![c] = 0]
  /\ retryLater' = [retryLater EXCEPT ![c] = FALSE]
  /\ retryIn' = [retryIn EXCEPT ![c] = 0]
  /\ waited' = [waited EXCEPT ![c] = 0]

ConnInit ==
  /\ sock = [c \in Clients |-> "none"]
  /\ connected = [c \in Clients |-> FALSE]
  /\ closing = [c \in Clients |-> FALSE]
  /\ fatal = [c \in Clients |-> FALSE]
  /\ tries = [c \in Clients |-> 0]
  /\ retryLater = [c \in Clients |-> FALSE]
  /\ retryIn = [c \in Clients |-> 0]
  /\ waited = [c \in Clients |-> 0]
  /\ troubles = 0

-----------------------------------------------------------------------------
\* open() of a fresh connection.
Open(c) ==
  /\ sock[c] = "none"
  /\ sock' = [sock EXCEPT ![c] = "connecting"]
  /\ UNCHANGED <<connected, closing, fatal, tries, retryLater, retryIn, waited, troubles>>

\* The 'open' event.  It says nothing about the relay's mind: the counters stay
\* (mutant: an open socket clears them).
BelievesOpen(c) ==
  /\ sock[c] = "connecting"
  /\ sock' = [sock EXCEPT ![c] = "open"]
  /\ connected' = [connected EXCEPT ![c] = TRUE]
  /\ closing' = [closing EXCEPT ![c] = FALSE]
  /\ tries' = [tries EXCEPT ![c] = 0]
  /\ retryLater' = [retryLater EXCEPT ![c] = FALSE]
  /\ UNCHANGED <<fatal, retryIn, waited, troubles>>
SocketOpened(c) ==
  /\ sock[c] = "connecting"
  /\ sock' = [sock EXCEPT ![c] = "open"]
  /\ connected' = [connected EXCEPT ![c] = TRUE]
  /\ closing' = [closing EXCEPT ![c] = FALSE]
  /\ UNCHANGED <<fatal, tries, retryLater, retryIn, waited, troubles>>

\* A HELLO of a compatible relay: _noteSessionEstablished().
SessionEstablished(c) ==
  /\ sock[c] = "open"
  /\ tries' = [tries EXCEPT ![c] = 0]
  /\ retryLater' = [retryLater EXCEPT ![c] = FALSE]
  /\ waited' = [waited EXCEPT ![c] = 0]
  /\ UNCHANGED <<sock, connected, closing, fatal, retryIn, troubles>>

\* _noteFatal(): latched once, and no retry is left behind.
NoteFatal(c) ==
  /\ fatal' = [fatal EXCEPT ![c] = TRUE]
  /\ closing' = [closing EXCEPT ![c] = TRUE]
  /\ retryIn' = [retryIn EXCEPT ![c] = 0]

\* A HELLO of an incompatible relay: the client closes, and still counts as connected
\* until the 'close' event.
HelloRefused(c) ==
  /\ sock[c] = "open"
  /\ sock' = [sock EXCEPT ![c] = "closing"]
  /\ NoteFatal(c)
  /\ UNCHANGED <<connected, tries, retryLater, waited, troubles>>

\* Mutant: a client that is told to try again later does not.
TakesNoForAnAnswer(c, code) ==
  IF closing[c] \/ fatal[c] \/ retryIn[c] # 0 \/ code = TryAgain
  THEN UNCHANGED <<tries, retryLater, retryIn, waited>>
  ELSE /\ tries' = [tries EXCEPT ![c] = @ + 1]
       /\ retryIn' = [retryIn EXCEPT ![c] = FastDelays[1]]
       /\ waited' = [waited EXCEPT ![c] = FastDelays[1]]
       /\ UNCHANGED retryLater

\* _scheduleReconnect(): a 1013 selects the slower table, and so do the closes after it
\* (mutant: only the close at hand counts).
ThisCloseOnly(c, code) == code = TryAgain
SlowFromNow(c, code) == retryLater[c] \/ code = TryAgain
ScheduleReconnect(c, code) ==
  IF closing[c] \/ fatal[c] \/ retryIn[c] # 0
  THEN UNCHANGED <<tries, retryLater, retryIn, waited>>
  ELSE LET slow  == SlowFromNow(c, code)
           table == IF slow THEN SlowDelays ELSE FastDelays
           i     == IF tries[c] < Len(table) THEN tries[c] + 1 ELSE Len(table)
       IN /\ retryLater' = [retryLater EXCEPT ![c] = slow]
          /\ tries' = [tries EXCEPT ![c] = @ + 1]
          /\ retryIn' = [retryIn EXCEPT ![c] = table[i]]
          /\ waited' = [waited EXCEPT ![c] = table[i]]

\* Does this close take the client's host view with it?  (Not after a close of its own.)
LosesHost(c, code) == code = Permanent \/ ~closing[c]

\* The 'close' event, with the code it carries.
SocketClosed(c, code) ==
  /\ sock[c] \in {"connecting", "open", "closing"}
  /\ sock[c] # "closing" => troubles < MaxTroubles
  /\ troubles' = troubles + (IF sock[c] = "closing" THEN 0 ELSE 1)
  /\ sock' = [sock EXCEPT ![c] = "closed"]
  /\ connected' = [connected EXCEPT ![c] = FALSE]
  /\ \/ /\ code = Permanent
        /\ NoteFatal(c)
        /\ UNCHANGED <<tries, retryLater, waited>>
     \/ /\ code # Permanent
        /\ ScheduleReconnect(c, code)
        /\ UNCHANGED <<closing, fatal>>

\* The reconnect timer.
RetryFires(c) ==
  /\ retryIn[c] # 0
  /\ ~closing[c]
  /\ retryIn' = [retryIn EXCEPT ![c] = 0]
  /\ sock' = [sock EXCEPT ![c] = "connecting"]
  /\ UNCHANGED <<connected, closing, fatal, tries, retryLater, waited, troubles>>

\* beginDisconnect() and closeSocket(); the page drops the connection.
Leave(c) ==
  /\ sock[c] # "none"
  /\ troubles < MaxTroubles
  /\ troubles' = troubles + 1
  /\ Reset(c)

\* The connections alone, against a relay that does anything.
ConnStep(c) ==
  \/ Open(c) \/ SocketOpened(c) \/ SessionEstablished(c) \/ HelloRefused(c)
  \/ \E code \in {TryAgain, Permanent, Dropped} : SocketClosed(c, code)
  \/ RetryFires(c) \/ Leave(c)

ConnSpec == ConnInit /\ [][\E c \in Clients : ConnStep(c)]_connVars

-----------------------------------------------------------------------------
ConnTypeOK ==
  /\ sock \in [Clients -> {"none", "connecting", "open", "closing", "closed"}]
  /\ connected \in [Clients -> BOOLEAN]
  /\ closing \in [Clients -> BOOLEAN]
  /\ fatal \in [Clients -> BOOLEAN]
  /\ tries \in [Clients -> Nat]
  /\ retryLater \in [Clients -> BOOLEAN]
  /\ retryIn \in [Clients -> Nat]
  /\ waited \in [Clients -> Nat]
  /\ troubles \in Nat

\* RoomConnection.js:525-540.  Between two HELLOs the client never waits less than it
\* did the time before: neither an 'open' that is about to be a refusal nor a bare 1006
\* after a 1013 brings the quick retries back.
DelaysGrow ==
  [][\A c \in Clients : waited'[c] >= waited[c] \/ waited'[c] = 0]_connVars

\* RoomConnection.js:473-482.  A client that wants to be in a room has a socket under way
\* or a timer that will open one, and never both; one that was refused for good has
\* neither, however its last socket ended.
ComesBack ==
  \A c \in Clients :
    sock[c] # "none" => IF fatal[c] THEN sock[c] \in {"closing", "closed"} /\ retryIn[c] = 0
                        ELSE sock[c] = "closed" <=> retryIn[c] # 0
=============================================================================
