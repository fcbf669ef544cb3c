----------------------------- MODULE ControlMessage -----------------------------
(***************************************************************************)
(* How the control thread of gsp-opus-tx-net takes a datagram apart and    *)
(* runs a command on it (control.c): recvfrom puts its bytes at the start  *)
(* of a buffer of zeros, control_parseMessage cuts the text at every ':'   *)
(* by writing a 0 over it and notes where each argument begins, until it   *)
(* has MaxArgs or is past the end, and control_processMessage looks the    *)
(* first argument up.  gsp-ctl has a copy of this code for TIMESYNC.       *)
(*                                                                         *)
(* The thread parses every message into the same Args, which keeps what a  *)
(* message with fewer arguments does not overwrite, and no command looks   *)
(* at nArgs.  Pointers into the buffer are offsets; all characters but ':' *)
(* and 0 are one, so any text may be the name of a command.                *)
(***************************************************************************)
EXTENDS Integers, FiniteSets

CONSTANTS
  MaxArgs,    (* arguments after which the loop stops: 10                  *)
  MaxLength   (* bound on the bytes of a datagram                          *)

(* Arguments each command reads after its name. *)
Params == [ANNOUNCE |-> 0, SEND |-> 3, STOP |-> 1, TIMESYNC |-> 1]

ASSUME BoundAssumption == MaxArgs \in Nat /\ MaxArgs > Params.SEND /\ MaxLength \in Nat

VARIABLES
  buffer,     (* control_receive_buffer, up to the 0 behind a message      *)
  bufSize,    (* bytes received                                            *)
  pc,         (* "clear", "receive", "parse", "process", "command" or      *)
              (* "crashed"                                                 *)
  buf, nArgs, Arg,       (* locals of control_parseMessage; i equals buf   *)
  Args,       (* Unset where nothing was stored yet                        *)
  cmd,        (* the command that runs                                     *)
  message     (* history: the bytes received, and the zeros behind them    *)

vars == <<buffer, bufSize, pc, buf, nArgs, Arg, Args, cmd, message>>

-----------------------------------------------------------------------------
Unset == -1
Offsets == 0 .. MaxLength
Bytes == {":", "c", "0"}
Zeros == [p \in Offsets |-> "0"]

Datagrams(n) == {text \in [Offsets -> Bytes] : \A p \in n .. MaxLength : text[p] = "0"}

(* Mutated forms of operators below: bugs the properties have to notice.    *)
AtEndEarly == buf >= bufSize - 1

AtEndLate == buf > bufSize

memsetDropped == buffer

-----------------------------------------------------------------------------
Init ==
  /\ buffer = Zeros
  /\ message = Zeros
  /\ bufSize = 0
  /\ pc = "receive"
  /\ buf = 0 /\ nArgs = 0 /\ Arg = 0
  /\ Args = [k \in 0 .. MaxArgs - 1 |-> Unset]
  /\ cmd = "none"

(* The head of the loop of control_thread_function.                         *)
memset == Zeros

Clear ==
  /\ pc = "clear"
  /\ buffer' = memset
  /\ message' = Zeros
  /\ bufSize' = 0 /\ buf' = 0 /\ nArgs' = 0 /\ Arg' = 0 /\ cmd' = "none"
  /\ pc' = "receive"
  /\ UNCHANGED Args

Receive ==
  /\ pc = "receive"
  /\ bufSize' \in 0 .. MaxLength
  /\ message' \in Datagrams(bufSize')
  /\ buffer' = [p \in Offsets |-> IF p < bufSize' THEN message'[p] ELSE buffer[p]]
  /\ pc' = "parse"
  /\ UNCHANGED <<buf, nArgs, Arg, Args, cmd>>

AtEnd == buf >= bufSize

(* One round of the loop of control_parseMessage.                           *)
Round ==
  LET cut == buffer[buf] \in {":", "0"}
  IN /\ pc = "parse"
     /\ buffer' = IF cut THEN [buffer EXCEPT ![buf] = "0"] ELSE buffer
     /\ Args' = IF cut THEN [Args EXCEPT ![nArgs] = Arg] ELSE Args
     /\ nArgs' = IF cut THEN nArgs + 1 ELSE nArgs
     /\ Arg' = IF cut THEN buf + 1 ELSE Arg
     /\ buf' = buf + 1
     /\ pc' = IF AtEnd \/ nArgs' = MaxArgs THEN "process" ELSE "parse"
     /\ UNCHANGED <<bufSize, cmd, message>>

(* The first argument names a command, which an empty one does not, or none. *)
ProcessMessage ==
  /\ pc = "process"
  /\ \/ /\ buffer[Args[0]] # "0"
        /\ cmd' \in DOMAIN Params
        /\ pc' = "command"
     \/ pc' = "clear" /\ UNCHANGED cmd
  /\ UNCHANGED <<buffer, bufSize, buf, nArgs, Arg, Args, message>>

(* The command reads its arguments; through an Unset one it may crash.      *)
Command ==
  /\ pc = "command"
  /\ \/ pc' = "clear"
     \/ pc' = "crashed" /\ \E k \in 1 .. Params[cmd] : Args[k] = Unset
  /\ UNCHANGED <<buffer, bufSize, buf, nArgs, Arg, Args, cmd, message>>

Next == Clear \/ Receive \/ Round \/ ProcessMessage \/ Command

Spec == Init /\ [][Next]_vars

-----------------------------------------------------------------------------
(* Type invariant: the loop reads no byte behind the 0 that ends a message  *)
(* and stores no argument beyond MaxArgs.                                   *)
TypeOK ==
  /\ buffer \in [Offsets -> Bytes] /\ message \in [Offsets -> Bytes]
  /\ bufSize \in Offsets
  /\ pc \in {"clear", "receive", "parse", "process", "command", "crashed"}
  /\ buf \in 0 .. bufSize + 1
  /\ pc = "parse" => buf <= bufSize /\ nArgs < MaxArgs
  /\ nArgs \in 0 .. MaxArgs
  /\ Arg \in 0 .. buf
  /\ Args \in [0 .. MaxArgs - 1 -> Offsets \cup {Unset}]
  /\ cmd \in DOMAIN Params \cup {"none"}

(* Reference definition: where the fields of the message end. *)
FieldEnds == {p \in 0 .. bufSize : message[p] \in {":", "0"}}

IsField(k, first, last) ==
  /\ last \in FieldEnds
  /\ first = 0 \/ first - 1 \in FieldEnds
  /\ \A p \in first .. last - 1 : p \notin FieldEnds
  /\ Cardinality({p \in FieldEnds : p < first}) = k

(* The C string that begins at an offset of the buffer ends at last.        *)
IsString(first, last) ==
  /\ first <= last /\ buffer[last] = "0"
  /\ \A p \in first .. last - 1 : buffer[p] # "0"

(* A parsed message has as many arguments as it has fields, up to MaxArgs,  *)
(* and read as a C string argument k is field k: empty fields, 0 bytes in   *)
(* the text, the field the end of the datagram cuts off and what a longer   *)
(* message left in Args before make no difference.                          *)
ArgsAreFields ==
  pc \in {"process", "command"} =>
    /\ nArgs = IF Cardinality(FieldEnds) < MaxArgs THEN Cardinality(FieldEnds)
               ELSE MaxArgs
    /\ \A k \in 0 .. nArgs - 1 :
         \E last \in Offsets : /\ IsField(k, Args[k], last)
                               /\ IsString(Args[k], last)

(* An argument missing in the message is Unset, or what an earlier message  *)
(* left points into this one: the command reads "", or the end of one of    *)
(* this message's fields, never text of the earlier message.                *)
NoStaleText ==
  pc = "command" =>
    \A k \in nArgs .. Params[cmd] :
      Args[k] # Unset =>
        \E last \in Offsets :
          /\ IsString(Args[k], last)
          /\ \A p \in Args[k] .. last - 1 : p < bufSize /\ message[p] = buffer[p]

-----------------------------------------------------------------------------
(* The inductive invariant behind the theorems of ControlMessageProofs.     *)
InUse == pc \in {"parse", "process", "command"}

(* A message is received into zeros, with the locals not yet set.           *)
ReceivesIntoZeros ==
  pc = "receive" =>
    buffer = Zeros /\ message = Zeros /\ bufSize = 0 /\ buf = 0 /\ nArgs = 0 /\ Arg = 0

(* The buffer is the message, with a 0 over each ':' the loop has passed.   *)
CutSoFar ==
  InUse =>
    /\ \A p \in Offsets : p >= bufSize => message[p] = "0"
    /\ \A p \in Offsets :
         buffer[p] = IF p < buf /\ message[p] = ":" THEN "0" ELSE message[p]

FieldsPassed == {p \in FieldEnds : p < buf}

(* The loop has noted the fields it passed; Arg begins the one it is in.    *)
FieldsNoted ==
  InUse =>
    /\ nArgs = Cardinality(FieldsPassed)
    /\ Arg = 0 \/ Arg - 1 \in FieldEnds
    /\ \A p \in Arg .. buf - 1 : p \notin FieldEnds
    /\ \A k \in 0 .. nArgs - 1 :
         /\ Args[k] # Unset
         /\ \E last \in FieldsPassed : Args[k] <= last /\ IsField(k, Args[k], last)

LoopEnded == pc \in {"process", "command"} => buf = bufSize + 1 \/ nArgs = MaxArgs

Dispatched == pc = "command" => cmd \in DOMAIN Params

IInv ==
  TypeOK /\ ReceivesIntoZeros /\ CutSoFar /\ FieldsNoted /\ LoopEnded /\ Dispatched
=============================================================================
