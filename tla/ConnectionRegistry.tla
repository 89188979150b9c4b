------------------------ MODULE ConnectionRegistry ------------------------
(***************************************************************************)
(* The streams of one match, and the registry every server keeps of those  *)
(* it serves: how many a user has open there, and the generation that the  *)
(* user's lease was last given by one of them.                             *)
(*                                                                         *)
(* What a server does for the match runs one job after the other.  A job   *)
(* is one step here, also where it is two transactions.                    *)
(***************************************************************************)
EXTENDS MatchRecord

CONSTANTS Servers, UserOf

ASSUME RegistryAssumption ==
    /\ UserOf \in [Connections -> Users]
    /\ None \notin Servers

VARIABLES
    match,    \* the stored record
    stream,   \* each stream's state: "new", "open", "leaving" or "closed"
    at,       \* the server it is open at
    active    \* per server and user, the active generation

registry == <<stream, at, active>>

RegistryTypeOK ==
    /\ match \in Records
    /\ stream \in [Connections -> {"new", "open", "leaving", "closed"}]
    /\ at \in [Connections -> Servers \cup {None}]
    /\ active \in [Servers -> [Users -> Generations \cup {None}]]

RegistryInit ==
    /\ stream = [c \in Connections |-> "new"]
    /\ at = [c \in Connections |-> None]
    /\ active = [s \in Servers |-> [u \in Users |-> None]]

OpenAt(s, u) ==
    {c \in Connections : stream[c] = "open" /\ at[c] = s /\ UserOf[c] = u}

CurrentGeneration(c) ==
    IF active[at[c]][UserOf[c]] # None THEN active[at[c]][UserOf[c]] ELSE c

-----------------------------------------------------------------------------
\* The name of the next stream; a new one is as good as another.
Unused(u) ==
    LET new == {c \in Connections : stream[c] = "new" /\ UserOf[c] = u}
    IN  IF new = {} THEN {} ELSE {CHOOSE c \in new : TRUE}

\* A member opens a stream at some server.
Connect(c, s) ==
    /\ c \in Unused(UserOf[c])
    /\ UserOf[c] \in match.members
    /\ match' = Connected(match, UserOf[c], c)
    /\ stream' = [stream EXCEPT ![c] = "open"]
    /\ at' = [at EXCEPT ![c] = s]
    /\ active' = [active EXCEPT ![s][UserOf[c]] = c]

Closed(gone) ==
    /\ stream' = [c \in Connections |-> IF c \in gone THEN "closed" ELSE stream[c]]
    /\ at' = [c \in Connections |-> IF c \in gone THEN None ELSE at[c]]

\* Closing queues the disconnection when no other stream of the user is open
\* at the server.
Released(c) ==
    /\ IF OpenAt(at[c], UserOf[c]) = {c}
       THEN stream' = [stream EXCEPT ![c] = "leaving"] /\ UNCHANGED at
       ELSE Closed({c})
    /\ UNCHANGED <<match, active>>

Close(c) == stream[c] = "open" /\ Released(c)

\* The generation is cleared unless another stream has made its own active.
Cleared(c) ==
    /\ Closed({c})
    /\ active' = IF OpenAt(at[c], UserOf[c]) # {} THEN active
                 ELSE [active EXCEPT ![at[c]][UserOf[c]] = None]

\* The queued disconnection; h is a fresh generation.
ParticipantDisconnected(c, h) ==
    /\ stream[c] = "leaving"
    /\ match' = IF OpenAt(at[c], UserOf[c]) # {} THEN match
                ELSE Disconnected(match, UserOf[c], CurrentGeneration(c), h)
    /\ Cleared(c)

\* A failed transaction is swallowed; the lease stays until it lapses.
DisconnectionFails(c) ==
    /\ stream[c] = "leaving"
    /\ Cleared(c)
    /\ UNCHANGED match

\* A message renews the lease before it is handled; in a running match it
\* may be a command that is accepted.
Message(c) ==
    LET u == UserOf[c]
        renewed == Renewed(match, u)
    IN  /\ stream[c] = "open"
        /\ Holds(match, u, CurrentGeneration(c))
        /\ match' \in {renewed} \cup (IF Running(match) /\ u \notin match.resigned
                                      THEN Commanded(renewed) ELSE {})
        /\ UNCHANGED registry

\* Without the lease the stream is refused and closed.
MessageRejected(c) ==
    /\ stream[c] = "open"
    /\ ~Holds(match, UserOf[c], CurrentGeneration(c))
    /\ Released(c)

\* A server that goes down forgets its streams, with their queued jobs.
RegistryLost(s) ==
    /\ Closed({c \in Connections : at[c] = s})
    /\ active' = [active EXCEPT ![s] = [u \in Users |-> None]]
=============================================================================
