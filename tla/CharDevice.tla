------------------------------ MODULE CharDevice ------------------------------
(***************************************************************************)
(* The character devices Lab1_cdev_kmod.c and Lab6_cdev_kmod.c: a string   *)
(* msg that device_write fills and device_read copies and clears, without  *)
(* any protection.  The kernel runs the calls of several processes at the  *)
(* same time.                                                              *)
(*                                                                         *)
(* Messages are numbered as they are written.  Of the string, head is the  *)
(* message that msg[0] belongs to, 0 for NUL, and tail the message that    *)
(* the rest belongs to, 0 when the string has one character only.          *)
(***************************************************************************)
EXTENDS Integers

CONSTANTS
  Writer,      \* the threads that write to the device
  MaxWrites    \* bound: messages written

reader == "reader"
User == Writer \cup {reader}

ASSUME UserAssumption == reader \notin Writer /\ MaxWrites \in Nat

VARIABLES
  fops,          \* the operations of the module that is inserted
  device,        \* "absent", "registered", "refused" or "removed"
  head, tail,    \* msg
  call,          \* where each user's call is
  arg,           \* the message that each writer writes
  got,           \* what the reader has copied so far
  writes,        \* messages written
  taken, last,   \* history: heads the reader has got; the last write
  alone          \* history: has nobody else made a call during this one?

deviceVars == <<fops, device, head, tail, call, arg, got, writes, taken, last, alone>>

\* fops of the two modules.
Lab1Fops == {"read"}
Lab6Fops == {"read", "write"}

Nothing == [id |-> 0, long |-> FALSE]

DeviceInit ==
  /\ fops \in {Lab1Fops, Lab6Fops} /\ device = "absent"
  /\ head = 0 /\ tail = 0
  /\ call = [u \in User |-> "none"]
  /\ arg = [u \in Writer |-> Nothing]
  /\ got = [head |-> 0, tail |-> 0]
  /\ writes = 0 /\ taken = {} /\ last = [id |-> 0, long |-> FALSE, alone |-> TRUE]
  /\ alone = [u \in User |-> TRUE]

Idle(u) == call[u] \in {"none", "failed"}
Goto(u, place) == call' = [call EXCEPT ![u] = place]

\* cdev_module_init; register_chrdev may fail.
Register ==
  /\ device = "absent"
  /\ device' \in {"registered", "refused"}
  /\ UNCHANGED <<fops, head, tail, call, arg, got, writes, taken, last, alone>>

\* cdev_module_exit.  What a call through a file that is still open does after
\* it is undefined; there are none here.
Unregister ==
  /\ device = "registered"
  /\ \A u \in User : Idle(u)
  /\ device' = "removed"
  /\ UNCHANGED <<fops, head, tail, call, arg, got, writes, taken, last, alone>>

\* u makes a call: those that are under way are not alone any more.
Meets(u) ==
  alone' = [v \in User |-> IF v = u THEN \A w \in User \ {u} : Idle(w)
                           ELSE alone[v] /\ Idle(v)]

-----------------------------------------------------------------------------
(***************************************************************************)
(* device_write: copy_from_user from the first byte on; then the string is *)
(* ended, after its last byte or in place of the 40th.                     *)
(***************************************************************************)
WriteBegin(u, long) ==
  /\ device = "registered" /\ "write" \in fops
  /\ Idle(u)
  /\ writes < MaxWrites
  /\ writes' = writes + 1
  /\ head' = writes + 1
  /\ Meets(u)
  /\ arg' = [arg EXCEPT ![u] = [id |-> writes + 1, long |-> long]]
  /\ last' = [id |-> writes + 1, long |-> long, alone |-> alone'[u]]
  /\ Goto(u, IF long THEN "copy" ELSE "end")
  /\ UNCHANGED <<fops, device, tail, got, taken>>

WriteCopy(u) ==
  /\ call[u] = "copy"
  /\ tail' = arg[u].id
  /\ Goto(u, "end")
  /\ UNCHANGED <<fops, device, head, arg, got, writes, taken, last, alone>>

\* Fault: the string is not ended.
WriteUnended(u) ==
  /\ call[u] = "end"
  /\ Goto(u, "none")
  /\ last' = [last EXCEPT !.alone = @ /\ (last.id = arg[u].id => alone[u])]
  /\ UNCHANGED <<fops, device, head, tail, arg, got, writes, taken, alone>>

WriteEnd(u) ==
  /\ call[u] = "end"
  /\ tail' = IF arg[u].long THEN tail ELSE 0
  /\ Goto(u, "none")
  /\ last' = [last EXCEPT !.alone = @ /\ (last.id = arg[u].id => alone[u])]
  /\ UNCHANGED <<fops, device, head, arg, got, writes, taken, alone>>

\* More than 40 bytes, or the module has no function for it.
WriteRefused(u, fits) ==
  /\ device = "registered"
  /\ Idle(u)
  /\ ~ fits \/ "write" \notin fops
  /\ Goto(u, "failed")
  /\ UNCHANGED <<fops, device, head, tail, arg, got, writes, taken, last, alone>>

-----------------------------------------------------------------------------
(***************************************************************************)
(* device_read: copy_to_user, then the first byte is cleared.              *)
(***************************************************************************)
ReadBegin ==
  /\ device = "registered"
  /\ Idle(reader)
  /\ got' = [head |-> head, tail |-> 0]
  /\ taken' = taken \cup ({head} \ {0})
  /\ Meets(reader)
  /\ Goto(reader, "copy")
  /\ UNCHANGED <<fops, device, head, tail, arg, writes, last>>

ReadCopy ==
  /\ call[reader] = "copy"
  /\ got' = [got EXCEPT !.tail = tail]
  /\ Goto(reader, "clear")
  /\ UNCHANGED <<fops, device, head, tail, arg, writes, taken, last, alone>>

\* Fault: the message is left there.
ReadKeep ==
  /\ call[reader] = "clear"
  /\ Goto(reader, "none")
  /\ UNCHANGED <<fops, device, head, tail, arg, got, writes, taken, last, alone>>

ReadClear ==
  /\ call[reader] = "clear"
  /\ head' = 0
  /\ Goto(reader, "none")
  /\ UNCHANGED <<fops, device, tail, arg, got, writes, taken, last, alone>>

Read == ReadBegin \/ ReadCopy \/ ReadClear

Write(u) ==
  \/ \E long \in BOOLEAN : WriteBegin(u, long)
  \/ WriteCopy(u) \/ WriteEnd(u)
  \/ \E fits \in BOOLEAN : WriteRefused(u, fits)

DeviceNext ==
  \/ Register \/ Unregister
  \/ \E u \in Writer : Write(u)
  \/ Read

DeviceSpec == DeviceInit /\ [][DeviceNext]_deviceVars
-----------------------------------------------------------------------------
(***************************************************************************)
(* Properties.                                                             *)
(***************************************************************************)
\* Messages are taken at most once by one reader, as the comment in
\* device_read promises, however many threads write and wherever a call is
\* overtaken: what is put between the copy and the clearing is lost, never
\* read twice (Lab6_cdev_kmod.c:81-119).
Slot == INSTANCE Mailbox WITH
          slot <- IF call[reader] \in {"copy", "clear"} /\ head = got.head THEN 0 ELSE head,
          sent <- writes
ImplementsMailbox == Slot!Spec

\* Calls that do not overlap pass messages whole: a read that nobody disturbs
\* gets nothing or the last message, without a character of an earlier one, if
\* nobody has disturbed its writing.
WholeWhenAlone ==
  call[reader] = "clear" /\ alone[reader] /\ last.alone =>
    /\ got.head \in {0, last.id}
    /\ got.head # 0 => got.tail = IF last.long THEN last.id ELSE 0
=============================================================================
