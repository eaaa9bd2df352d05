-------------------------------- MODULE Chat --------------------------------
(***************************************************************************)
(* One channel of a game's chat: its rows, the room of sockets that joined   *)
(* it, and what their clients show.  A handler writes (a message, its        *)
(* moderation, the channel, or the room itself), reads back what it is going *)
(* to tell, and emits that to the room.  Any replica may run a handler, and   *)
(* the emit reaches each socket through its own replica: reads and            *)
(* deliveries of two handlers interleave as they like.                       *)
(*                                                                         *)
(* A write and its round of telling, from the commit to the last delivery,    *)
(* occupy one request.  Typing notices, pages of history and the client's     *)
(* handling of them are left out.                                            *)
(***************************************************************************)
EXTENDS ChatParameters

CONSTANT Requests

VARIABLES
    status,     \* chat_messages.status, "none" before the INSERT
    channel,    \* chat_channels.archived_at: open or archived
    gone,       \* the game is soft-deleted
    sockets,    \* sockets past the handshake
    room,       \* of these, the ones in the channel's room
    shows,      \* what a client was last told of a message, the channel, the room
    req,        \* handlers in flight
    mixed       \* history: items told by overlapping rounds, or by one that died,
                \* with no undisturbed round of it since

vars == <<status, channel, gone, sockets, room, shows, req, mixed>>

Items    == Messages \cup {"channel", "presence"}
Statuses == {"visible", "hidden", "removed"}
Idle     == [at |-> "idle"]
Members  == {SocketUser[c] : c \in Clients}

Values == Statuses \cup {"none", "open", "archived"} \cup SUBSET Members

TypeOK ==
    /\ status \in [Messages -> Statuses \cup {"none"}]
    /\ channel \in {"open", "archived"}
    /\ gone \in BOOLEAN
    /\ sockets \in SUBSET Clients
    /\ room \in SUBSET sockets
    /\ DOMAIN shows = Clients
    /\ DOMAIN req = Requests
    /\ mixed \in SUBSET Items

(* What the database or, for presence, fetchSockets says now: a user with two  *)
(* tabs open is one member.                                                  *)
Value(x) ==
    CASE x \in Messages   -> status[x]
      [] x = "channel"    -> channel
      [] x = "presence"   -> {SocketUser[c] : c \in room}

Telling(r, x) == req[r].at \in {"read", "deliver"} /\ req[r].on = x
Quiet(x)      == \A r \in Requests : ~Telling(r, x)

(* What a client shows on entering the room: it knows of no message yet to be  *)
(* written, and must ask for the rest.                                       *)
AtTheDoor == [x \in Items |-> IF x \in Messages /\ status[x] = "none" THEN "none" ELSE Unknown]

Init ==
    /\ status = [m \in Messages |-> "none"]
    /\ channel = "open"
    /\ gone = FALSE
    /\ sockets = {}
    /\ room = {}
    /\ shows = [c \in Clients |-> AtTheDoor]
    /\ req = [r \in Requests |-> Idle]
    /\ mixed = {}

-----------------------------------------------------------------------------
(* The round of request r over item x, addressed to some clients; it is        *)
(* disturbed by any other round of x it overlaps.                            *)
Others(r, x) == {q \in Requests \ {r} : Telling(q, x)}

StartRound(r, round) ==
    LET x == round.on IN
    /\ req' = [q \in Requests |->
                  IF q = r THEN [round EXCEPT !.alone = Others(r, x) = {}]
                  ELSE IF Telling(q, x) THEN [req[q] EXCEPT !.alone = FALSE]
                  ELSE req[q]]
    /\ mixed' = IF Others(r, x) = {} THEN mixed ELSE mixed \cup {x}

ReadThenTell(x, to) ==
    [at |-> "read", on |-> x, to |-> to, left |-> to, value |-> Unknown, alone |-> TRUE]
Tell(x, to, value) ==
    [at |-> "deliver", on |-> x, to |-> to, left |-> to, value |-> value, alone |-> TRUE]

NoOne(m)    == {}               \* mutant: the broadcast is forgotten
Everyone(m) == Clients

(* messageCreated, messageModerated: over REST as over the socket.             *)
Announce(r, m) ==
    IF Everyone(m) = {} THEN req' = [req EXCEPT ![r] = Idle] /\ UNCHANGED mixed
    ELSE StartRound(r, ReadThenTell(m, Everyone(m)))

(* findMessageById after the write, or presence: what is told is what is read. *)
ReadBack(r) ==
    /\ req[r].at = "read"
    /\ req' = [req EXCEPT ![r].at = "deliver", ![r].value = Value(req[r].on)]
    /\ UNCHANGED <<status, channel, gone, sockets, room, shows, mixed>>

Deliver(r, c) ==
    /\ req[r].at = "deliver"
    /\ c \in req[r].left
    /\ shows' = IF c \in room THEN [shows EXCEPT ![c][req[r].on] = req[r].value] ELSE shows
    /\ IF req[r].left = {c}
       THEN /\ req' = [req EXCEPT ![r] = Idle]
            /\ mixed' = IF req[r].alone /\ req[r].to = Clients THEN mixed \ {req[r].on} ELSE mixed
       ELSE /\ req' = [req EXCEPT ![r].left = @ \ {c}]
            /\ UNCHANGED mixed
    /\ UNCHANGED <<status, channel, gone, sockets, room>>

(* An exception, fetchSockets that no replica answers in time, or the death of *)
(* the process: what was written stays, what was not told is lost.           *)
Dies(r) ==
    /\ req[r] # Idle
    /\ req' = [req EXCEPT ![r] = Idle]
    /\ mixed' = mixed \cup {x \in Items : Telling(r, x)}
    /\ UNCHANGED <<status, channel, gone, sockets, room, shows>>

-----------------------------------------------------------------------------
(* sendMessage: an archived channel takes no message; the rate limit may       *)
(* refuse it as well.                                                        *)
SendCheck(r, m) ==
    /\ req[r] = Idle
    /\ ~gone
    /\ channel = "open"
    /\ status[m] = "none"
    /\ \A q \in Requests : req[q] # [at |-> "insert", on |-> m]
    /\ req' = [req EXCEPT ![r] = [at |-> "insert", on |-> m]]
    /\ UNCHANGED <<status, channel, gone, sockets, room, shows, mixed>>

Insert(r) ==
    /\ req[r].at = "insert"
    /\ status' = [status EXCEPT ![req[r].on] = "visible"]
    /\ Announce(r, req[r].on)
    /\ UNCHANGED <<channel, gone, sockets, room, shows>>

(* moderateMessage: by the studio of a game still there, from any status.      *)
Moderate(r, m, to) ==
    /\ req[r] = Idle
    /\ ~gone
    /\ status[m] # "none"
    /\ status' = [status EXCEPT ![m] = to]
    /\ Announce(r, m)
    /\ UNCHANGED <<channel, gone, sockets, room, shows>>

(* updateChannel tells the row the UPDATE returned.                            *)
UpdateChannel(r, to) ==
    /\ req[r] = Idle
    /\ ~gone
    /\ channel' = to
    /\ StartRound(r, Tell("channel", Clients, to))
    /\ UNCHANGED <<status, gone, sockets, room, shows>>

RemoveGame ==
    /\ ~gone
    /\ gone' = TRUE
    /\ UNCHANGED <<status, channel, sockets, room, shows, req, mixed>>

-----------------------------------------------------------------------------
(* handleConnection: no valid token, no socket.                                *)
Connect(c) ==
    /\ c \notin sockets
    /\ sockets' = sockets \cup {c}
    /\ UNCHANGED <<status, channel, gone, room, shows, req, mixed>>

(* join: the arrival is told to the others once, the joiner gets the same as   *)
(* its answer; who is in already gets only the answer.                        *)
Join(r, c) ==
    /\ req[r] = Idle
    /\ ~gone
    /\ c \in sockets
    /\ room' = room \cup {c}
    /\ shows' = IF c \in room THEN shows ELSE [shows EXCEPT ![c] = AtTheDoor]
    /\ StartRound(r, ReadThenTell("presence", IF c \in room THEN {c} ELSE Clients))
    /\ UNCHANGED <<status, channel, gone, sockets>>

Leave(r, c) ==
    /\ req[r] = Idle
    /\ c \in room
    /\ room' = room \ {c}
    /\ StartRound(r, ReadThenTell("presence", Clients))
    /\ UNCHANGED <<status, channel, gone, sockets, shows>>

WhoIsHere(r, c) ==
    /\ req[r] = Idle
    /\ c \in room
    /\ StartRound(r, ReadThenTell("presence", {c}))
    /\ UNCHANGED <<status, channel, gone, sockets, room, shows>>

RoomsOfClosed(c) == {}          \* mutant: client.rooms, empty once it is closed

LeavingChannels(c) == room \cap {c}

(* The client goes, or its token expires: the socket leaves its rooms, and     *)
(* handleDisconnect tells those that were remembered while it was leaving.    *)
Disconnect(r, c) ==
    /\ req[r] = Idle
    /\ c \in sockets
    /\ sockets' = sockets \ {c}
    /\ room' = room \ {c}
    /\ IF LeavingChannels(c) = {} THEN UNCHANGED <<req, mixed>>
       ELSE StartRound(r, ReadThenTell("presence", Clients))
    /\ UNCHANGED <<status, channel, gone, shows>>

Next ==
    \/ \E r \in Requests : ReadBack(r) \/ Insert(r) \/ Dies(r)
    \/ \E r \in Requests, m \in Messages : SendCheck(r, m) \/ \E to \in Statuses : Moderate(r, m, to)
    \/ \E r \in Requests, to \in {"open", "archived"} : UpdateChannel(r, to)
    \/ \E r \in Requests, c \in Clients :
          \/ Deliver(r, c) \/ Join(r, c) \/ Leave(r, c) \/ WhoIsHere(r, c) \/ Disconnect(r, c)
    \/ \E c \in Clients : Connect(c)
    \/ RemoveGame

Spec == Init /\ [][Next]_vars

-----------------------------------------------------------------------------
(* Properties.                                                               *)

Agree(items) ==
    \A c \in room, x \in items :
        shows[c][x] # Unknown /\ Quiet(x) /\ x \notin mixed => shows[c][x] = Value(x)

(* Once every emit is delivered, what a client in the room shows of a message   *)
(* or of the channel is what is stored, also of a message sent over REST or    *)
(* moderated while it was being sent: only two writes of the same thing that    *)
(* overlap, or a handler that died, can leave the room with something else,     *)
(* and then until the next write.                                             *)
RoomAgrees == Agree(Messages \cup {"channel"})

(* Likewise the members shown are those in the room, however sockets joined,   *)
(* left, asked or were dropped, unless two of these overlapped.               *)
PresenceAgrees == Agree({"presence"})
=============================================================================
