------------------------------ MODULE ReaderDevice ------------------------------
(***************************************************************************)
(* The reader's thread of a client: it looks for readers on the USB,       *)
(* connects to the first that answers, and polls it for tags until the     *)
(* first error (reader_function, reader_poll_loop and reader.c).           *)
(*                                                                         *)
(* The device answers every command with an echo of it.  Until it is       *)
(* healthy, USB calls may fail, echoes may be lost or garbled, and may     *)
(* come when the program has stopped waiting; they are then found by the   *)
(* next command, which has to skip them.  Memory may run out at any time:  *)
(* some allocations are tested, one is lost, and two make the client crash.*)
(***************************************************************************)
EXTENDS Naturals, FiniteSets, SequencesExt

CONSTANTS
  Devices,      (* readers on the USB                                       *)
  Handles,      (* bound: ftdi contexts, with their struct reader           *)
  Tags,         (* tags within reach                                        *)
  NoHandle      (* no reader is being used                                  *)

ASSUME HandleAssumption == NoHandle \notin Handles /\ IsFiniteSet(Handles)

VARIABLES
  rpc,         (* where the thread is                                       *)
  life,        (* what has become of each handle                            *)
  device,      (* the device a handle is for                                *)
  readers,     (* the local list "readers", newest first                    *)
  current,     (* the local "reader"                                        *)
  cmd,         (* the command sent to it                                    *)
  pings,       (* the loop counter of reader_ping                           *)
  goes,        (* the loop counter of reader_txPacketRxReply                *)
  pending,     (* echoes the device has still to send                       *)
  rx,          (* packets the host has received and not read                *)
  poll,        (* the number of this poll, modulo 2                         *)
  answered,    (* history: the number of the poll whose reply was used      *)
  tags,        (* the local list "tags"                                     *)
  healthy,     (* from now on USB calls succeed and echoes come in time     *)
  sound        (* history: it was healthy when the connection was made      *)

thread == <<rpc, cmd, pings, goes, poll, answered, tags, sound>>
handles == <<life, device, readers, current>>
vars == <<rpc, life, device, readers, current, cmd, pings, goes, pending, rx, poll,
          answered, tags, healthy, sound>>

(* After "ping" and "beep" of reader_connect, those of reader_poll15693.   *)
Commands == {"ping", "beep", "mode", "agc", "amp", "inventory"}
Setup == {"mode", "agc", "amp"}
After == [beep |-> "mode", mode |-> "agc", agc |-> "amp"]

PingTries == 5

FewGoes == 2                                                      (* mutant *)
Goes == 10

(* An echo, and, if it is the reply to an inventory, of which poll.        *)
Echo == [cmd : Commands, poll : 0..1]

TypeOK ==
  /\ rpc \in {"search", "connect", "write", "read", "handle", "ended", "starved", "crashed"}
  /\ life \in [Handles -> {"unused", "found", "open", "freed", "lost"}]
  /\ device \in [Handles -> Devices]
  /\ readers \in Seq(Handles)
  /\ current \in Handles \cup {NoHandle}
  /\ cmd \in Commands
  /\ pings \in 1..PingTries
  /\ goes \in 0..(Goes - 1)
  /\ pending \in Seq(Echo)
  /\ rx \in Seq(Echo)
  /\ poll \in 0..1 /\ answered \in 0..1
  /\ tags \in SUBSET Tags
  /\ healthy \in BOOLEAN /\ sound \in BOOLEAN

(* Without memory for the list of readers the thread ends at once.         *)
Init ==
  /\ rpc \in {"search", "starved"}
  /\ life = [h \in Handles |-> "unused"]
  /\ device \in [Handles -> Devices]
  /\ readers = <<>>
  /\ current = NoHandle
  /\ cmd = "ping"
  /\ pings = 1
  /\ goes = 0
  /\ pending = <<>> /\ rx = <<>>
  /\ poll = 0 /\ answered = 0
  /\ tags = {}
  /\ healthy = FALSE /\ sound = FALSE

--------------------------------------------------------------------------------
(* The device and its line.                                                *)
Recover ==
  /\ ~healthy
  /\ healthy' = TRUE
  /\ UNCHANGED <<thread, handles, pending, rx>>

Deliver ==
  /\ pending # <<>>
  /\ rx' = Append(rx, Head(pending))
  /\ pending' = Tail(pending)
  /\ UNCHANGED <<thread, handles, healthy>>

--------------------------------------------------------------------------------
(* list_pop of the next reader to try.                                     *)
TakeFirst(list) ==
  /\ current' = Head(list)
  /\ readers' = Tail(list)
  /\ rpc' = "connect"

(* find_all_readers pushes a reader for each device it finds.  A push onto *)
(* a list that is not empty takes memory; if there is none the reader is   *)
(* lost, which nobody notices.  If there is none for a context the search  *)
(* returns NULL, and is repeated with what the list already holds.         *)
Search ==
  /\ rpc = "search"
  /\ \E found \in SUBSET {h \in Handles : life[h] = "unused"} :
     \E lost \in SUBSET found :
       /\ \A g, h \in found : g # h => device[g] # device[h]
       /\ life' = [h \in Handles |-> IF h \in lost THEN "lost"
                                    ELSE IF h \in found THEN "found" ELSE life[h]]
       /\ \E order \in SetToSeqs(found \ lost) :
            /\ order \o readers = <<>> => lost = {}
            /\ \/ /\ order \o readers # <<>>
                  /\ TakeFirst(order \o readers)
               \/ /\ readers' = order \o readers
                  /\ UNCHANGED <<rpc, current>>
  /\ UNCHANGED <<device, cmd, pings, goes, pending, rx, poll, answered, tags, healthy, sound>>

(* reader_create or tag_create returns NULL, and reader_init or tag_init   *)
(* writes to it.                                                           *)
Crash ==
  /\ rpc' = "crashed"
  /\ UNCHANGED <<handles, cmd, pings, goes, pending, rx, poll, answered, tags, healthy, sound>>

SearchCrashes == rpc = "search" /\ Crash

(* ftdi_usb_open_dev, reader_reset (which also silences the device),       *)
(* reader_purge and ftdi_set_baudrate.                                     *)
Open ==
  /\ rpc = "connect"
  /\ life' = [life EXCEPT ![current] = "open"]
  /\ pending' = <<>> /\ rx' = <<>>
  /\ cmd' = "ping" /\ pings' = 1
  /\ rpc' = "write"
  /\ UNCHANGED <<device, readers, current, goes, poll, answered, tags, healthy, sound>>

(* reader_connect fails: it has closed the device, reader_function frees   *)
(* the reader, and tries the next or ends the thread.                      *)
GiveUp ==
  /\ life' = [life EXCEPT ![current] = "freed"]
  /\ IF readers # <<>>
     THEN TakeFirst(readers)
     ELSE rpc' = "ended" /\ current' = NoHandle /\ UNCHANGED readers
  /\ UNCHANGED <<device, cmd, pings, goes, poll, answered, tags, sound>>

OpenFails ==
  /\ rpc = "connect"
  /\ ~healthy
  /\ GiveUp
  /\ UNCHANGED <<pending, rx, healthy>>

--------------------------------------------------------------------------------
(* What the thread does when a command has succeeded, ...                  *)
Connected ==
  /\ cmd = "ping"
  /\ rpc' = "write" /\ cmd' = "beep"
  /\ sound' = healthy
  /\ UNCHANGED <<handles, pings, goes, poll, answered, tags>>

OthersKept == life                                                (* mutant *)
OthersFreed == [h \in Handles |-> IF h \in ToSet(readers) THEN "freed" ELSE life[h]]

(* Whether it beeps or not, the other readers are freed and polling begins,*)
(* if there is memory for the list of tags; else the thread ends.          *)
Beeped ==
  /\ cmd = "beep"
  /\ readers' = <<>>
  /\ \/ /\ rpc' = "write" /\ cmd' = After[cmd]
        /\ life' = OthersFreed
        /\ UNCHANGED current
     \/ /\ rpc' = "starved" /\ current' = NoHandle
        /\ life' = [OthersFreed EXCEPT ![current] = "freed"]
        /\ UNCHANGED cmd
  /\ UNCHANGED <<device, pings, goes, poll, answered, tags, sound>>

SetUp ==
  /\ cmd \in {"mode", "agc"}
  /\ rpc' = "write" /\ cmd' = After[cmd]
  /\ UNCHANGED <<handles, pings, goes, poll, answered, tags, sound>>

Inventoried(reply) ==
  /\ cmd = "inventory"
  /\ rpc' = "handle"
  /\ tags' \in SUBSET Tags
  /\ answered' = reply.poll
  /\ UNCHANGED <<handles, cmd, pings, goes, poll, sound>>

PollFailsOnce ==                                                  (* mutant *)
  /\ \/ /\ cmd \in Setup
        /\ rpc' = "ended" /\ current' = NoHandle
        /\ life' = [life EXCEPT ![current] = "freed"]
        /\ UNCHANGED poll
     \/ /\ cmd = "inventory"
        /\ rpc' = "write" /\ poll' = 1 - poll
        /\ UNCHANGED <<life, current>>
  /\ UNCHANGED <<device, readers, cmd, pings, goes, answered, tags, sound>>

(* ... and when it has failed.  One failed poll ends the thread, which     *)
(* frees the reader but leaves the device open.                            *)
PollFails ==
  /\ cmd \in Setup \cup {"inventory"}
  /\ rpc' = "ended"
  /\ life' = [life EXCEPT ![current] = "freed"]
  /\ current' = NoHandle
  /\ UNCHANGED <<device, readers, cmd, pings, goes, poll, answered, tags, sound>>

MayPingOnceMore == pings <= PingTries                             (* mutant *)
MayPingAgain == pings < PingTries

SamePing == pings                                                 (* mutant *)
NextPing == pings + 1

(* reader_ping makes five attempts.                                        *)
PingAgain ==
  /\ cmd = "ping"
  /\ MayPingAgain
  /\ pings' = NextPing
  /\ rpc' = "write"
  /\ UNCHANGED <<handles, cmd, goes, poll, answered, tags, sound>>

PingsFail == cmd = "ping" /\ pings = PingTries /\ GiveUp

Failed == Beeped \/ PollFails \/ PingAgain \/ PingsFail

--------------------------------------------------------------------------------
(* reader_txPacketRxReply: the command is written, and the device answers. *)
Write ==
  /\ rpc = "write"
  /\ rpc' = "read" /\ goes' = 0
  /\ \/ pending' = Append(pending, [cmd |-> cmd, poll |-> IF cmd = "inventory" THEN poll ELSE 0])
     \/ ~healthy /\ UNCHANGED pending
  /\ UNCHANGED <<handles, cmd, pings, rx, poll, answered, tags, healthy, sound>>

WriteFails ==
  /\ rpc = "write"
  /\ ~healthy
  /\ Failed
  /\ UNCHANGED <<pending, rx, healthy>>

(* reader_read_packet finds the echo of the command.                       *)
ReadEcho ==
  /\ rpc = "read"
  /\ rx # <<>> /\ Head(rx).cmd = cmd
  /\ cmd # "amp"
  /\ rx' = Tail(rx)
  /\ Connected \/ Beeped \/ SetUp \/ Inventoried(Head(rx))
  /\ UNCHANGED <<pending, healthy>>

(* The last of the set-up commands is followed by a purge of what was      *)
(* received so far.                                                        *)
ReadEchoAndPurge ==
  /\ rpc = "read"
  /\ rx # <<>> /\ Head(rx).cmd = cmd
  /\ cmd = "amp"
  /\ rx' = <<>>
  /\ rpc' = "write" /\ cmd' = "inventory"
  /\ UNCHANGED <<handles, pings, goes, pending, poll, answered, tags, healthy, sound>>

PurgeFails ==
  /\ rpc = "read"
  /\ rx # <<>> /\ Head(rx).cmd = cmd
  /\ cmd = "amp"
  /\ ~healthy
  /\ rx' = Tail(rx)
  /\ PollFails
  /\ UNCHANGED <<pending, healthy>>

(* The tag list of the reply is cut off or has no line end after the echo. *)
ReplyMalformed ==
  /\ rpc = "read"
  /\ rx # <<>> /\ Head(rx).cmd = cmd
  /\ cmd = "inventory"
  /\ ~healthy
  /\ rx' = Tail(rx)
  /\ PollFails
  /\ UNCHANGED <<pending, healthy>>

ReplyCrashes ==
  /\ rpc = "read"
  /\ rx # <<>> /\ Head(rx).cmd = cmd
  /\ cmd = "inventory"
  /\ Crash

(* One of the goes brought something else than the echo.                   *)
GoWasted ==
  IF goes + 1 < Goes
  THEN goes' = goes + 1 /\ UNCHANGED <<rpc, handles, cmd, pings, poll, answered, tags, sound>>
  ELSE Failed

(* A packet without the echo: a late answer, or, unhealthy, a garbled one. *)
ReadOther ==
  /\ rpc = "read"
  /\ rx # <<>> /\ (Head(rx).cmd # cmd \/ ~healthy)
  /\ rx' = Tail(rx)
  /\ GoWasted
  /\ UNCHANGED <<pending, healthy>>

(* Nothing comes for ten milliseconds, or nothing more within a packet:    *)
(* what was received is purged.                                            *)
ReadTimeout ==
  /\ rpc = "read"
  /\ ~healthy \/ (rx = <<>> /\ pending = <<>>)
  /\ rx' = <<>>
  /\ GoWasted
  /\ UNCHANGED <<pending, healthy>>

ReadFails ==
  /\ rpc = "read"
  /\ ~healthy
  /\ Failed
  /\ UNCHANGED <<pending, rx, healthy>>

(* reader_poll_loop hands each tag to reader_handle_tag (module Client).   *)
HandleTag ==
  /\ rpc = "handle"
  /\ \E t \in tags : tags' = tags \ {t}
  /\ UNCHANGED <<rpc, handles, cmd, pings, goes, pending, rx, poll, answered, healthy, sound>>

PollAgain ==
  /\ rpc = "handle"
  /\ tags = {}
  /\ poll' = 1 - poll
  /\ rpc' = "write" /\ cmd' = "mode"
  /\ UNCHANGED <<handles, pings, goes, pending, rx, answered, tags, healthy, sound>>

Thread ==
  \/ Search \/ SearchCrashes \/ Open \/ OpenFails
  \/ Write \/ WriteFails
  \/ ReadEcho \/ ReadEchoAndPurge \/ PurgeFails \/ ReplyMalformed \/ ReplyCrashes
  \/ ReadOther \/ ReadTimeout \/ ReadFails
  \/ HandleTag \/ PollAgain

Next == Thread \/ Recover \/ Deliver

Spec == Init /\ [][Next]_vars

(* The thread is run, and bytes on the line arrive.                        *)
FairSpec == Spec /\ WF_vars(Thread) /\ WF_vars(Deliver)

--------------------------------------------------------------------------------
(* Of the readers that searches allocate, also of those a failed search    *)
(* left, each is waiting in the list or in use, or freed, or was lost by a *)
(* list_push without memory; at most one has its device open.  A reader is *)
(* lost only behind others: while the client searches on after a loss, it  *)
(* has one to connect to.                                                  *)
HandlesAccounted ==
  /\ {h \in Handles : life[h] \in {"found", "open"}}
       = ToSet(readers) \cup ({current} \ {NoHandle})
  /\ IsInjective(readers) /\ current \notin ToSet(readers)
  /\ \A h \in Handles : life[h] = "open" => h = current
  /\ rpc = "search" /\ (\E h \in Handles : life[h] = "lost") => readers # <<>>

(* The late echoes of five pings, and whatever else connecting leaves in   *)
(* the buffers, do not use up the goes of a later command: once a healthy  *)
(* device is connected no poll fails.  The thread then ends only if it has *)
(* no memory for its list of tags ("starved").                             *)
AnsweredPollsSucceed == rpc = "ended" => ~sound

(* The tags that are handed on come from the reply to this poll's          *)
(* inventory, never from a late reply to an earlier one's.                 *)
RepliesAreFresh == rpc = "handle" => answered = poll

(* Every connection that is tried is given up or gets to the tags, unless  *)
(* memory runs out.                                                        *)
ConnectionsProceed ==
  (rpc = "connect") ~> (rpc \in {"handle", "ended", "starved", "crashed"})

================================================================================
