----------------------------- MODULE Admission ------------------------------
(***************************************************************************)
(* Whom the server lets in (serverFINAL.py): the counter of connections of *)
(* an address, the ban list and its file, the counter of messages of a     *)
(* connection, and the thread that trims the counters.                     *)
(*                                                                         *)
(* The main loop and the trimming thread share the counters under ip_lock; *)
(* what each does under the lock is one step.  The server process ends, is *)
(* killed and is started again; the file is what stays.                    *)
(***************************************************************************)
EXTENDS Timestamps, FiniteSets

CONSTANTS
  Address,              \* the addresses that connect
  Sock,                 \* connections that can be open at once
  connection_threshold, \* attempts an address has ...
  time_window,          \* ... in so many seconds
  max_connected,
  msg_rate_limit,       \* messages a connection has ...
  msg_time_window,      \* ... in so many seconds
  CleanPeriod,          \* the pause of the trimming thread
  MaxAttempts,          \* bound on the attempts of an address at one time
  MaxMessages,          \* bound on the messages of a connection at one time
  MaxBoots              \* bound on the starts of a server

ASSUME AdmissionAssumption ==
  /\ connection_threshold \in Nat /\ time_window \in Nat \ {0} /\ max_connected \in Nat
  /\ msg_rate_limit \in Nat /\ msg_time_window \in Nat
  /\ time_window <= msg_time_window
  /\ CleanPeriod \in Nat /\ MaxBoots \in Nat

VARIABLES
  clock,
  up,        \* a server is running
  boots,     \* how often one was started
  blacklist, \* blacklist_ips
  file,      \* the file of banned addresses
  conns,     \* ip_connection_counts
  sock,      \* each connection: free, pending (in pending_crypt) or connected
  msgs,      \* ip_message_counts
  cleaner,   \* the trimming thread: asleep until a time, or about to trim
  \* what has happened, which the server does not keep
  log,       \* all attempts of an address since the server runs
  handled,   \* all messages that a connection was allowed
  sentenced  \* the addresses that were banned, less those whose ban was lost
             \* with a server that was killed or one that could not start

procVars == <<up, boots>>
banVars == <<blacklist, file, sentenced>>
connVars == <<conns, log>>
msgVars == <<msgs, handled>>
vars == <<clock, procVars, banVars, connVars, sock, msgVars, cleaner>>

Asleep(until) == [at |-> "sleep", time |-> until]

Forgotten ==
  /\ conns' = [a \in Address |-> Empty] /\ log' = [a \in Address |-> Empty]
  /\ sock' = [s \in Sock |-> "free"]
  /\ msgs' = [s \in Sock |-> Empty] /\ handled' = [s \in Sock |-> Empty]
  /\ cleaner' = Asleep(clock)

Init ==
  /\ clock = 0 /\ up = FALSE /\ boots = 0
  /\ blacklist = {} /\ file = {} /\ sentenced = {}
  /\ conns = [a \in Address |-> Empty] /\ log = [a \in Address |-> Empty]
  /\ sock = [s \in Sock |-> "free"]
  /\ msgs = [s \in Sock |-> Empty] /\ handled = [s \in Sock |-> Empty]
  /\ cleaner = Asleep(0)

Tick ==
  /\ clock < MaxTime
  /\ clock' = clock + 1
  /\ UNCHANGED <<procVars, banVars, connVars, sock, msgVars, cleaner>>

-----------------------------------------------------------------------------
(* The server process *)

\* _load_banned_ips; a file that does not exist is an empty one.
StartUnloadedVariant ==
  /\ ~up /\ boots < MaxBoots
  /\ up' = TRUE /\ boots' = boots + 1
  /\ blacklist' = {}
  /\ Forgotten
  /\ UNCHANGED <<clock, file, sentenced>>
Start ==
  /\ ~up /\ boots < MaxBoots
  /\ up' = TRUE /\ boots' = boots + 1
  /\ blacklist' = file
  /\ Forgotten
  /\ UNCHANGED <<clock, file, sentenced>>

\* A server whose bind fails, as that of a second server does, has not loaded
\* the file yet and saves its empty list over it.
StartFails ==
  /\ boots < MaxBoots
  /\ boots' = boots + 1
  /\ file' = {}
  /\ sentenced' = IF up THEN sentenced ELSE {}
  /\ UNCHANGED <<clock, up, blacklist, connVars, sock, msgVars, cleaner>>

\* The loop ends with an exception: _save_banned_ip.
Stop ==
  /\ up
  /\ up' = FALSE
  /\ file' = blacklist /\ blacklist' = {}
  /\ Forgotten
  /\ UNCHANGED <<clock, boots, sentenced>>

\* The process is killed: its bans are as it found them.
Killed ==
  /\ up
  /\ up' = FALSE
  /\ blacklist' = {} /\ sentenced' = sentenced \cap file
  /\ Forgotten
  /\ UNCHANGED <<clock, boots, file>>

-----------------------------------------------------------------------------
(* Connections *)

Connected == {s \in Sock : sock[s] = "connected"}

\* An attempt is counted unless the address is banned or the server is full.
Counted(a) ==
  /\ up /\ a \notin blacklist /\ Cardinality(Connected) < max_connected
  /\ log[a][clock] < MaxAttempts
  /\ log' = [log EXCEPT ![a] = Extended(@, clock)]
WindowOf(a) == Extended(Trimmed(conns[a], clock, time_window), clock)

TooMany(a) == Count(WindowOf(a)) > connection_threshold

Bans(a) ==
  /\ Counted(a) /\ TooMany(a)
  /\ blacklist' = blacklist \cup {a}
  /\ sentenced' = sentenced \cup {a}
  /\ conns' = [conns EXCEPT ![a] = Empty]
  /\ UNCHANGED <<clock, procVars, file, sock, msgVars, cleaner>>

Admits(a, s) ==
  /\ Counted(a) /\ ~TooMany(a)
  /\ sock[s] = "free"
  /\ conns' = [conns EXCEPT ![a] = WindowOf(a)]
  /\ sock' = [sock EXCEPT ![s] = "pending"]
  /\ UNCHANGED <<clock, procVars, banVars, msgVars, cleaner>>

\* The key of the client has come.
Handshake(s) ==
  /\ sock[s] = "pending"
  /\ sock' = [sock EXCEPT ![s] = "connected"]
  /\ UNCHANGED <<clock, procVars, banVars, connVars, msgVars, cleaner>>

\* _close_connection, or the end of a handshake that takes too long
Closed(s) ==
  /\ sock' = [sock EXCEPT ![s] = "free"]
  /\ msgs' = [msgs EXCEPT ![s] = Empty]
  /\ handled' = [handled EXCEPT ![s] = Empty]

Leaves(s) ==
  /\ sock[s] # "free"
  /\ Closed(s)
  /\ UNCHANGED <<clock, procVars, banVars, connVars, cleaner>>

-----------------------------------------------------------------------------
(* Messages *)

MessagesOf(s) == Extended(Trimmed(msgs[s], clock, msg_time_window), clock)

MessageAllowed(s) ==
  /\ sock[s] = "connected" /\ handled[s][clock] < MaxMessages
  /\ Count(MessagesOf(s)) <= msg_rate_limit
  /\ msgs' = [msgs EXCEPT ![s] = MessagesOf(s)]
  /\ handled' = [handled EXCEPT ![s] = Extended(@, clock)]
  /\ UNCHANGED <<clock, procVars, banVars, connVars, sock, cleaner>>

MessageRefused(s) ==
  /\ sock[s] = "connected"
  /\ Count(MessagesOf(s)) > msg_rate_limit
  /\ Closed(s)
  /\ UNCHANGED <<clock, procVars, banVars, connVars, cleaner>>

-----------------------------------------------------------------------------
(* The thread of _cleanup_ip_counters *)

\* It reads the time before it has the lock.
CleanerWakes ==
  /\ up /\ cleaner.at = "sleep" /\ cleaner.time <= clock
  /\ cleaner' = [at |-> "trim", time |-> clock]
  /\ UNCHANGED <<clock, procVars, banVars, connVars, sock, msgVars>>

CleanerClearsVariant ==
  /\ cleaner.at = "trim"
  /\ conns' = [a \in Address |-> Empty] /\ msgs' = [s \in Sock |-> Empty]
  /\ cleaner' = Asleep(clock + CleanPeriod)
  /\ UNCHANGED <<clock, procVars, banVars, log, sock, handled>>
CleanerHurriesVariant ==
  /\ cleaner.at = "trim"
  /\ conns' = [a \in Address |-> Trimmed(conns[a], cleaner.time, time_window)]
  /\ msgs' = [s \in Sock |-> Trimmed(msgs[s], cleaner.time, time_window)]
  /\ cleaner' = Asleep(clock)
  /\ UNCHANGED <<clock, procVars, banVars, log, sock, handled>>
\* Both counters are trimmed with the window of the connections.
CleanerTrims ==
  /\ cleaner.at = "trim"
  /\ conns' = [a \in Address |-> Trimmed(conns[a], cleaner.time, time_window)]
  /\ msgs' = [s \in Sock |-> Trimmed(msgs[s], cleaner.time, time_window)]
  /\ cleaner' = Asleep(clock + CleanPeriod)
  /\ UNCHANGED <<clock, procVars, banVars, log, sock, handled>>

Next ==
  \/ Tick \/ Start \/ StartFails \/ Stop \/ Killed \/ CleanerWakes \/ CleanerTrims
  \/ \E a \in Address : Bans(a) \/ \E s \in Sock : Admits(a, s)
  \/ \E s \in Sock : Handshake(s) \/ Leaves(s) \/ MessageAllowed(s) \/ MessageRefused(s)

Spec == Init /\ [][Next]_vars

-----------------------------------------------------------------------------
(* What should hold *)

\* Every value in range; there is no ban list without a server, and a free
\* connection has no counter.
TypeOK ==
  /\ clock \in Time /\ up \in BOOLEAN /\ boots \in 0..MaxBoots
  /\ blacklist \subseteq Address /\ file \subseteq Address /\ sentenced \subseteq Address
  /\ conns \in [Address -> [Time -> Nat]] /\ log \in [Address -> [Time -> Nat]]
  /\ sock \in [Sock -> {"free", "pending", "connected"}]
  /\ msgs \in [Sock -> [Time -> Nat]] /\ handled \in [Sock -> [Time -> Nat]]
  /\ cleaner \in [at : {"sleep", "trim"}, time : Nat]
  /\ ~up => blacklist = {}
  /\ \A s \in Sock : sock[s] # "connected" => msgs[s] = Empty

\* The counters are trimmed by two threads, one of them with a time it read
\* before it had the lock, and dropped when they are empty; nevertheless an
\* address is banned exactly if it has made more than connection_threshold
\* attempts in time_window.
Window == INSTANCE SlidingWindow
            WITH Threshold <- connection_threshold, Window <- time_window,
                 banned <- blacklist
AddressesAreLimited == Window!Spec

\* A ban survives the server that pronounced it: it is in the ban list of the
\* server that runs, or in the file for the next.  A server that is killed
\* takes its bans with it, and one that fails to start those of the file.
BansSurvive == sentenced \subseteq (IF up THEN blacklist ELSE file)

\* A connection has no more than msg_rate_limit messages in time_window; in
\* msg_time_window, for which the limit is meant, it may have more, since the
\* trimming thread forgets messages after time_window already, but never more
\* than twice as many, since that thread pauses as long.
MessageLimits ==
  \A s \in Sock :
    /\ Count(Trimmed(handled[s], clock, time_window)) <= msg_rate_limit
    /\ CleanPeriod >= msg_time_window =>
         Count(Trimmed(handled[s], clock, msg_time_window)) <= 2 * msg_rate_limit
=============================================================================
