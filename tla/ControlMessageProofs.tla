------------------------- MODULE ControlMessageProofs -------------------------
(***************************************************************************)
(* What the parser of control messages promises, for datagrams of every    *)
(* length and every limit on the arguments.  A cut only changes bytes the  *)
(* loop has passed, so the buffer is always the message with its passed    *)
(* colons cut; every field passed is noted once, in order; and because the *)
(* buffer was zeroed, whatever offset an earlier message left in Args, the *)
(* bytes from there on are this message's.                                 *)
(***************************************************************************)
EXTENDS ControlMessage, FiniteSetTheorems, WellFoundedInduction, TLAPS

(* Params in numbers: no command takes as many arguments as fit Args.       *)
LEMMA ParamsBound ==
  ASSUME NEW c \in DOMAIN Params PROVE Params[c] \in 0 .. MaxArgs - 1
BY BoundAssumption DEF Params

(* The fields of a message are finitely many, and so are those passed.      *)
LEMMA FieldsFinite ==
  ASSUME bufSize \in Nat
  PROVE  /\ IsFiniteSet(FieldEnds) /\ IsFiniteSet(FieldsPassed)
         /\ Cardinality(FieldEnds) \in Nat /\ Cardinality(FieldsPassed) \in Nat
         /\ Cardinality(FieldsPassed) <= Cardinality(FieldEnds)
<1>1. IsFiniteSet(0 .. bufSize)
  BY FS_Interval
<1>2. FieldEnds \in SUBSET (0 .. bufSize)
  BY DEF FieldEnds
<1>3. IsFiniteSet(FieldEnds)
  BY <1>1, <1>2, FS_Subset
<1>4. FieldsPassed \in SUBSET FieldEnds
  BY DEF FieldsPassed
<1>5. IsFiniteSet(FieldsPassed) /\ Cardinality(FieldsPassed) <= Cardinality(FieldEnds)
  BY <1>3, <1>4, FS_Subset
<1>6. QED
  BY <1>3, <1>5, FS_CardinalityType

-----------------------------------------------------------------------------
LEMMA InitHolds == ASSUME Init PROVE IInv
<1>1. 0 \in Nat /\ MaxLength \in Nat /\ MaxArgs \in Nat
  BY BoundAssumption
<1>2. TypeOK
  <2>1. Zeros \in [Offsets -> Bytes]
    BY DEF Zeros, Bytes
  <2>2. 0 \in Offsets /\ 0 \in 0 .. 0 + 1 /\ 0 \in 0 .. 0 /\ 0 \in 0 .. MaxArgs
    BY <1>1 DEF Offsets
  <2>3. QED
    BY <2>1, <2>2 DEF Init, TypeOK
<1>3. QED
  BY <1>2 DEF Init, IInv, ReceivesIntoZeros, CutSoFar, FieldsNoted, LoopEnded, InUse, Dispatched

LEMMA ClearStep == ASSUME IInv, Clear PROVE IInv'
<1>1. MaxLength \in Nat /\ MaxArgs \in Nat
  BY BoundAssumption
<1>2. TypeOK'
  <2>1. Zeros \in [Offsets -> Bytes]
    BY DEF Zeros, Bytes
  <2>2. 0 \in Offsets /\ 0 \in 0 .. 0 + 1 /\ 0 \in 0 .. 0 /\ 0 \in 0 .. MaxArgs
    BY <1>1 DEF Offsets
  <2>3. QED
    BY <2>1, <2>2 DEF IInv, TypeOK, Clear, memset
<1>3. QED
  BY <1>2 DEF Clear, memset, IInv, ReceivesIntoZeros, CutSoFar, FieldsNoted, LoopEnded, InUse, Dispatched

(* Receiving into zeros makes the buffer the message. *)
LEMMA ReceiveStep == ASSUME IInv, Receive PROVE IInv'
<1>1. MaxLength \in Nat /\ MaxArgs \in Nat /\ MaxArgs > 0
  BY BoundAssumption DEF Params
<1>2. /\ bufSize' \in 0 .. MaxLength
      /\ message' \in [Offsets -> Bytes]
      /\ \A p \in bufSize' .. MaxLength : message'[p] = "0"
  BY DEF Receive, Datagrams
<1>3. /\ buffer = Zeros /\ buf' = 0 /\ nArgs' = 0 /\ Arg' = 0
      /\ pc' = "parse" /\ Args' = Args /\ cmd' = cmd
  BY DEF IInv, ReceivesIntoZeros, Receive
<1>4. \A p \in Offsets : p >= bufSize' => message'[p] = "0"
  BY <1>1, <1>2 DEF Offsets
<1>5. buffer' = message'
  <2>1. buffer' = [p \in Offsets |-> IF p < bufSize' THEN message'[p] ELSE Zeros[p]]
    BY <1>3 DEF Receive
  <2>2. \A p \in Offsets : buffer'[p] = message'[p]
    <3> SUFFICES ASSUME NEW p \in Offsets PROVE buffer'[p] = message'[p]
      OBVIOUS
    <3>1. CASE p < bufSize'
      BY <2>1, <3>1
    <3>2. CASE ~ p < bufSize'
      <4>1. p >= bufSize'
        BY <1>1, <1>2, <3>2 DEF Offsets
      <4>2. QED
        BY <1>4, <2>1, <3>2, <4>1 DEF Zeros
    <3>3. QED
      BY <3>1, <3>2
  <2>3. QED
    BY <1>2, <2>1, <2>2
<1>6. TypeOK'
  <2>1. buffer' \in [Offsets -> Bytes] /\ message' \in [Offsets -> Bytes]
    BY <1>2, <1>5
  <2>2. bufSize' \in Offsets /\ buf' \in 0 .. bufSize' + 1 /\ Arg' \in 0 .. buf'
    <3>1. bufSize' \in 0 .. MaxLength
      BY <1>2
    <3>2. \A n \in 0 .. MaxLength : 0 \in 0 .. n + 1 /\ 0 \in 0 .. 0
      BY <1>1
    <3>3. QED
      BY <1>3, <3>1, <3>2 DEF Offsets
  <2>3. nArgs' \in 0 .. MaxArgs /\ buf' <= bufSize' /\ nArgs' < MaxArgs
    BY <1>1, <1>2, <1>3
  <2>4. QED
    BY <1>3, <2>1, <2>2, <2>3 DEF IInv, TypeOK
<1>7. CutSoFar'
  <2>1. \A p \in Offsets : ~ p < 0
    BY <1>1 DEF Offsets
  <2>2. QED
    BY <1>3, <1>4, <1>5, <2>1 DEF CutSoFar
<1>8. FieldsNoted'
  <2>1. FieldsPassed' = {}
    <3>1. \A p \in FieldEnds' : ~ p < 0
      BY <1>2 DEF FieldEnds
    <3>2. QED
      BY <1>3, <3>1 DEF FieldsPassed
  <2>2. Cardinality({}) = 0
    BY FS_EmptySet
  <2>3. 0 .. 0 - 1 = {}
    OBVIOUS
  <2>4. QED
    BY <1>3, <2>1, <2>2, <2>3 DEF FieldsNoted
<1>9. QED
  BY <1>3, <1>6, <1>7, <1>8 DEF IInv, ReceivesIntoZeros, LoopEnded, Dispatched

-----------------------------------------------------------------------------
(* The loop looks at bytes it has not cut yet, so it cuts at the ends of    *)
(* fields and nowhere else.                                                 *)
LEMMA CutsAtFieldEnds ==
  ASSUME IInv, pc = "parse"
  PROVE  /\ buf \in 0 .. bufSize /\ buf \in Offsets /\ nArgs \in 0 .. MaxArgs - 1
         /\ buffer[buf] = message[buf]
         /\ buffer[buf] \in {":", "0"} <=> buf \in FieldEnds
<1>1. buf \in 0 .. bufSize /\ bufSize \in 0 .. MaxLength /\ nArgs \in 0 .. MaxArgs - 1
  BY BoundAssumption DEF IInv, TypeOK, Offsets
<1>2. buf \in Offsets /\ ~ buf < buf
  BY <1>1, BoundAssumption DEF Offsets
<1>3. buffer[buf] = message[buf]
  BY <1>2 DEF IInv, CutSoFar, InUse
<1>4. QED
  BY <1>1, <1>2, <1>3 DEF FieldEnds

(* Passing a byte passes the field that ends there, if one does. *)
LEMMA FieldsPassedNext ==
  ASSUME IInv, pc = "parse", Round
  PROVE  /\ FieldEnds' = FieldEnds
         /\ FieldsPassed' = IF buf \in FieldEnds THEN FieldsPassed \cup {buf} ELSE FieldsPassed
         /\ Cardinality(FieldsPassed') =
              IF buf \in FieldEnds THEN Cardinality(FieldsPassed) + 1 ELSE Cardinality(FieldsPassed)
<1>1. buf \in 0 .. bufSize /\ bufSize \in 0 .. MaxLength
  BY CutsAtFieldEnds, BoundAssumption DEF IInv, TypeOK, Offsets
<1>2. FieldEnds' = FieldEnds /\ buf' = buf + 1
  BY DEF Round, FieldEnds
<1>3. \A p \in FieldEnds : p \in Nat
  BY <1>1, BoundAssumption DEF FieldEnds
<1>4. \A p \in FieldEnds : p < buf + 1 <=> p < buf \/ p = buf
  BY <1>1, <1>3, BoundAssumption
<1>5. FieldsPassed' = {p \in FieldEnds : p < buf \/ p = buf}
  BY <1>2, <1>4 DEF FieldsPassed
<1>6. FieldsPassed' = IF buf \in FieldEnds THEN FieldsPassed \cup {buf} ELSE FieldsPassed
  BY <1>5 DEF FieldsPassed
<1>7. buf \notin FieldsPassed
  BY <1>1, BoundAssumption DEF FieldsPassed
<1>8. IsFiniteSet(FieldsPassed)
  BY <1>1, FieldsFinite
<1>9. Cardinality(FieldsPassed \cup {buf}) = Cardinality(FieldsPassed) + 1
  BY <1>7, <1>8, FS_AddElement
<1>10. QED
  BY <1>2, <1>6, <1>9

(* The argument a cut notes is the field that ends at the cut. *)
LEMMA CutNotesField ==
  ASSUME IInv, pc = "parse", buf \in FieldEnds
  PROVE  Arg \in Offsets /\ Arg <= buf /\ IsField(nArgs, Arg, buf)
<1>1. buf \in 0 .. bufSize /\ bufSize \in 0 .. MaxLength /\ Arg \in 0 .. buf
  BY CutsAtFieldEnds, BoundAssumption DEF IInv, TypeOK, Offsets
<1>2. /\ nArgs = Cardinality(FieldsPassed)
      /\ Arg = 0 \/ Arg - 1 \in FieldEnds
      /\ \A p \in Arg .. buf - 1 : p \notin FieldEnds
  BY DEF IInv, FieldsNoted, InUse
<1>3. {p \in FieldEnds : p < Arg} = FieldsPassed
  <2>1. \A p \in FieldEnds : p < Arg <=> p < buf
    <3> SUFFICES ASSUME NEW p \in FieldEnds PROVE p < Arg <=> p < buf
      OBVIOUS
    <3>1. p \in Nat
      BY <1>1, BoundAssumption DEF FieldEnds
    <3>2. p \notin Arg .. buf - 1
      BY <1>2
    <3>3. QED
      BY <1>1, <3>1, <3>2, BoundAssumption
  <2>2. QED
    BY <2>1 DEF FieldsPassed
<1>4. Arg \in Offsets /\ Arg <= buf
  BY <1>1, BoundAssumption DEF Offsets
<1>5. Cardinality({p \in FieldEnds : p < Arg}) = nArgs
  BY <1>2, <1>3
<1>6. QED
  BY <1>2, <1>4, <1>5 DEF IsField

LEMMA RoundTypes ==
  ASSUME IInv, Round PROVE TypeOK' /\ LoopEnded'
<1>1. pc = "parse"
  BY DEF Round
<1>2. /\ buf \in 0 .. bufSize /\ buf \in Offsets /\ nArgs \in 0 .. MaxArgs - 1
      /\ Arg \in 0 .. buf /\ bufSize \in 0 .. MaxLength
      /\ MaxLength \in Nat /\ MaxArgs \in Nat
  BY <1>1, CutsAtFieldEnds, BoundAssumption DEF IInv, TypeOK, Offsets
<1> DEFINE cut == buffer[buf] \in {":", "0"}
<1>3. buffer' \in [Offsets -> Bytes]
  BY DEF Round, IInv, TypeOK, Bytes
<1>4. Args' \in [0 .. MaxArgs - 1 -> Offsets \cup {Unset}]
  <2>1. Arg \in Offsets
    BY <1>2 DEF Offsets
  <2>2. QED
    BY <1>2, <2>1 DEF Round, IInv, TypeOK
<1>5. /\ nArgs' \in 0 .. MaxArgs /\ buf' = buf + 1 /\ buf' \in 0 .. bufSize + 1
      /\ Arg' \in 0 .. buf'
  BY <1>2 DEF Round
<1>6. pc' = IF AtEnd \/ nArgs' = MaxArgs THEN "process" ELSE "parse"
  BY DEF Round
<1>7. pc' = "parse" => buf' <= bufSize /\ nArgs' < MaxArgs
  BY <1>2, <1>5, <1>6 DEF AtEnd
<1>8. pc' = "process" => buf' = bufSize + 1 \/ nArgs' = MaxArgs
  BY <1>2, <1>5, <1>6 DEF AtEnd
<1>9. bufSize' = bufSize /\ cmd' = cmd /\ message' = message
  BY DEF Round
<1>10. QED
  BY <1>3, <1>4, <1>5, <1>6, <1>7, <1>8, <1>9 DEF IInv, TypeOK, LoopEnded

LEMMA RoundCuts ==
  ASSUME IInv, Round PROVE CutSoFar'
<1>1. pc = "parse"
  BY DEF Round
<1>2. buf \in Offsets /\ buffer[buf] = message[buf]
  BY <1>1, CutsAtFieldEnds
<1>3. /\ \A p \in Offsets : p >= bufSize => message[p] = "0"
      /\ \A p \in Offsets :
           buffer[p] = IF p < buf /\ message[p] = ":" THEN "0" ELSE message[p]
  BY <1>1 DEF IInv, CutSoFar, InUse
<1>4. buffer \in [Offsets -> Bytes]
  BY DEF IInv, TypeOK
<1>5. message' = message /\ bufSize' = bufSize /\ buf' = buf + 1
  BY DEF Round
<1>6. \A p \in Offsets :
        buffer'[p] = IF p < buf + 1 /\ message[p] = ":" THEN "0" ELSE message[p]
  <2> SUFFICES ASSUME NEW p \in Offsets
               PROVE  buffer'[p] = IF p < buf + 1 /\ message[p] = ":" THEN "0" ELSE message[p]
    OBVIOUS
  <2>1. p \in Nat /\ buf \in Nat
    BY <1>2, BoundAssumption DEF Offsets
  <2>2. CASE p = buf
    <3>1. p < buf + 1
      BY <2>1, <2>2
    <3>2. buffer'[p] = IF message[p] \in {":", "0"} THEN "0" ELSE message[p]
      BY <1>2, <1>4, <2>2 DEF Round
    <3>3. QED
      BY <3>1, <3>2
  <2>3. CASE p # buf
    <3>1. p < buf + 1 <=> p < buf
      BY <2>1, <2>3
    <3>2. buffer'[p] = buffer[p]
      BY <1>4, <2>3 DEF Round
    <3>3. QED
      BY <1>3, <3>1, <3>2
  <2>4. QED
    BY <2>2, <2>3
<1>7. QED
  BY <1>3, <1>5, <1>6 DEF CutSoFar

LEMMA RoundNotes ==
  ASSUME IInv, Round PROVE FieldsNoted'
<1>1. pc = "parse"
  BY DEF Round
<1>2. /\ buf \in 0 .. bufSize /\ bufSize \in 0 .. MaxLength
      /\ nArgs \in 0 .. MaxArgs - 1 /\ Arg \in 0 .. buf
      /\ buffer[buf] \in {":", "0"} <=> buf \in FieldEnds
      /\ MaxLength \in Nat /\ MaxArgs \in Nat
  BY <1>1, CutsAtFieldEnds, BoundAssumption DEF IInv, TypeOK, Offsets
<1>3. /\ nArgs = Cardinality(FieldsPassed)
      /\ Arg = 0 \/ Arg - 1 \in FieldEnds
      /\ \A p \in Arg .. buf - 1 : p \notin FieldEnds
      /\ \A k \in 0 .. nArgs - 1 :
           /\ Args[k] # Unset
           /\ \E last \in FieldsPassed : Args[k] <= last /\ IsField(k, Args[k], last)
  BY <1>1 DEF IInv, FieldsNoted, InUse
<1>4. /\ FieldEnds' = FieldEnds /\ FieldsPassed \subseteq FieldsPassed'
      /\ FieldsPassed' = IF buf \in FieldEnds THEN FieldsPassed \cup {buf} ELSE FieldsPassed
      /\ Cardinality(FieldsPassed') =
           IF buf \in FieldEnds THEN Cardinality(FieldsPassed) + 1 ELSE Cardinality(FieldsPassed)
  BY <1>1, FieldsPassedNext
<1>6. Args \in [0 .. MaxArgs - 1 -> Offsets \cup {Unset}]
  BY DEF IInv, TypeOK
<1>7. buf' = buf + 1
  BY DEF Round
<1>8. CASE buf \in FieldEnds
  <2>1. nArgs' = nArgs + 1 /\ Arg' = buf + 1 /\ Args' = [Args EXCEPT ![nArgs] = Arg]
    BY <1>2, <1>8 DEF Round
  <2>2. nArgs' = Cardinality(FieldsPassed')
    BY <1>3, <1>4, <1>8, <2>1
  <2>3. Arg' - 1 \in FieldEnds'
    <3>1. Arg' - 1 = buf
      BY <1>2, <2>1
    <3>2. QED
      BY <1>4, <1>8, <3>1
  <2>4. \A p \in Arg' .. buf' - 1 : p \notin FieldEnds'
    <3>1. Arg' .. buf' - 1 = {}
      BY <1>2, <1>7, <2>1
    <3>2. QED
      BY <3>1
  <2>5. ASSUME NEW k \in 0 .. nArgs' - 1
        PROVE  (/\ Args[k] # Unset
                /\ \E last \in FieldsPassed : Args[k] <= last /\ IsField(k, Args[k], last))'
    <3>1. k \in 0 .. nArgs
      BY <1>2, <2>1, <2>5
    <3>2. CASE k = nArgs
      <4>1. Args'[k] = Arg
        BY <1>2, <1>6, <2>1, <3>2
      <4>2. Arg <= buf /\ IsField(k, Arg, buf) /\ Arg # Unset
        BY <1>1, <1>2, <1>8, <3>2, CutNotesField DEF Unset
      <4>3. QED
        BY <1>4, <1>8, <4>1, <4>2 DEF IsField
    <3>3. CASE k # nArgs
      <4>1. k \in 0 .. nArgs - 1 /\ Args'[k] = Args[k]
        BY <1>2, <1>6, <2>1, <3>1, <3>3
      <4>2. QED
        BY <1>3, <1>4, <4>1 DEF IsField
    <3>4. QED
      BY <3>2, <3>3
  <2>6. QED
    BY <2>2, <2>3, <2>4, <2>5 DEF FieldsNoted
<1>9. CASE buf \notin FieldEnds
  <2>1. nArgs' = nArgs /\ Arg' = Arg /\ Args' = Args
    BY <1>2, <1>9 DEF Round
  <2>2. \A p \in Arg' .. buf' - 1 : p \notin FieldEnds'
    <3> SUFFICES ASSUME NEW p \in Arg' .. buf' - 1 PROVE p \notin FieldEnds'
      OBVIOUS
    <3>1. p = buf \/ p \in Arg .. buf - 1
      BY <1>2, <1>7, <2>1
    <3>2. QED
      BY <1>3, <1>4, <1>9, <3>1
  <2>3. QED
    BY <1>3, <1>4, <1>9, <2>1, <2>2 DEF FieldsNoted, IsField
<1>10. QED
  BY <1>8, <1>9

LEMMA RoundStep == ASSUME IInv, Round PROVE IInv'
<1>1. pc' \in {"process", "parse"}
  BY DEF Round
<1>2. QED
  BY <1>1, RoundTypes, RoundCuts, RoundNotes DEF IInv, ReceivesIntoZeros, Dispatched

-----------------------------------------------------------------------------
(* Looking the command up and running it only reads the buffer.             *)
LEMMA ReadingStep ==
  ASSUME IInv, pc \in {"process", "command"},
         pc' \in {"command", "clear", "crashed"}, cmd' \in DOMAIN Params \cup {"none"},
         pc' = "command" => cmd' \in DOMAIN Params,
         UNCHANGED <<buffer, bufSize, buf, nArgs, Arg, Args, message>>
  PROVE  IInv'
<1>1. FieldEnds' = FieldEnds /\ FieldsPassed' = FieldsPassed
  BY DEF FieldEnds, FieldsPassed
<1>3. TypeOK'
  BY DEF IInv, TypeOK
<1>4. CutSoFar'
  BY DEF IInv, CutSoFar, InUse
<1>5. FieldsNoted'
  BY <1>1 DEF IInv, FieldsNoted, IsField, InUse
<1>6. QED
  BY <1>3, <1>4, <1>5 DEF IInv, ReceivesIntoZeros, LoopEnded, Dispatched

(* Every step keeps the invariant. *)
LEMMA StepHolds == ASSUME IInv, Next PROVE IInv'
<1>1. CASE ProcessMessage
  BY <1>1, ReadingStep DEF ProcessMessage, IInv, TypeOK
<1>2. CASE Command
  BY <1>2, ReadingStep DEF Command, IInv, TypeOK
<1>3. QED
  BY <1>1, <1>2, ClearStep, ReceiveStep, RoundStep DEF Next

LEMMA StutterHolds == ASSUME IInv, UNCHANGED vars PROVE IInv'
<1>1. FieldEnds' = FieldEnds /\ FieldsPassed' = FieldsPassed
  BY DEF FieldEnds, FieldsPassed, vars
<1>3. FieldsNoted'
  BY <1>1 DEF IInv, FieldsNoted, IsField, InUse, vars
<1>4. QED
  BY <1>3 DEF IInv, TypeOK, ReceivesIntoZeros, CutSoFar, LoopEnded, InUse, Dispatched, vars

(* The inductive invariant holds for datagrams of every length, every limit *)
(* on the arguments and every sequence of messages.                         *)
THEOREM Inductive == Spec => []IInv
<1>1. Init => IInv
  BY InitHolds
<1>2. IInv /\ [Next]_vars => IInv'
  BY StepHolds, StutterHolds
<1>3. QED
  BY <1>1, <1>2, PTL DEF Spec

(* The loop of control_parseMessage reads nothing behind the 0 that ends a  *)
(* message and stores no argument beyond MaxArgs.                           *)
THEOREM TypeCorrect == Spec => []TypeOK
<1>1. IInv => TypeOK
  BY DEF IInv
<1>2. QED
  BY <1>1, Inductive, PTL

-----------------------------------------------------------------------------
LEMMA FieldsAreStrings ==
  ASSUME IInv, InUse, NEW k \in 0 .. nArgs - 1
  PROVE  \E last \in Offsets : IsField(k, Args[k], last) /\ IsString(Args[k], last)
<1>1. /\ buf \in 0 .. bufSize + 1 /\ bufSize \in 0 .. MaxLength /\ nArgs \in 0 .. MaxArgs
      /\ MaxLength \in Nat /\ MaxArgs \in Nat
  BY BoundAssumption DEF IInv, TypeOK, Offsets
<1>2. PICK last \in FieldsPassed : Args[k] <= last /\ IsField(k, Args[k], last)
  BY DEF IInv, FieldsNoted
<1>3. Args[k] \in Offsets
  <2>1. Args[k] # Unset
    BY DEF IInv, FieldsNoted
  <2>2. k \in 0 .. MaxArgs - 1
    BY <1>1
  <2>3. QED
    BY <2>1, <2>2 DEF IInv, TypeOK
<1>4. last \in Offsets /\ last < buf /\ last \in FieldEnds
  BY <1>1, <1>2 DEF FieldsPassed, FieldEnds, Offsets
<1>5. \A p \in Offsets : buffer[p] = IF p < buf /\ message[p] = ":" THEN "0" ELSE message[p]
  BY DEF IInv, CutSoFar
<1>6. buffer[last] = "0"
  BY <1>4, <1>5 DEF FieldEnds
<1>7. ASSUME NEW p \in Args[k] .. last - 1 PROVE buffer[p] # "0"
  <2>1. p \in Offsets /\ p \in 0 .. bufSize
    BY <1>1, <1>3, <1>4 DEF Offsets
  <2>2. p \notin FieldEnds
    BY <1>2 DEF IsField
  <2>3. message[p] \notin {":", "0"}
    BY <2>1, <2>2 DEF FieldEnds
  <2>4. QED
    BY <1>5, <2>1, <2>3
<1>8. QED
  BY <1>2, <1>4, <1>6, <1>7 DEF IsString

(* For datagrams of every length: a parsed message has as many arguments as *)
(* it has fields, up to MaxArgs, and argument k is field k.                 *)
THEOREM ParsesFields == Spec => []ArgsAreFields
<1>1. IInv => ArgsAreFields
  <2> SUFFICES ASSUME IInv, pc \in {"process", "command"}
               PROVE  /\ nArgs = IF Cardinality(FieldEnds) < MaxArgs
                                 THEN Cardinality(FieldEnds) ELSE MaxArgs
                      /\ \A k \in 0 .. nArgs - 1 :
                           \E last \in Offsets : /\ IsField(k, Args[k], last)
                                                 /\ IsString(Args[k], last)
    BY DEF ArgsAreFields
  <2>1. InUse
    BY DEF InUse
  <2>2. /\ bufSize \in Nat /\ MaxArgs \in Nat /\ nArgs \in 0 .. MaxArgs
        /\ nArgs = Cardinality(FieldsPassed)
    BY <2>1, BoundAssumption DEF IInv, TypeOK, FieldsNoted, Offsets
  <2>3. /\ Cardinality(FieldEnds) \in Nat
        /\ Cardinality(FieldsPassed) <= Cardinality(FieldEnds)
    BY <2>2, FieldsFinite
  <2>4. buf = bufSize + 1 => FieldsPassed = FieldEnds
    BY <2>2 DEF FieldsPassed, FieldEnds
  <2>5. buf = bufSize + 1 \/ nArgs = MaxArgs
    BY DEF IInv, LoopEnded
  <2>6. nArgs = IF Cardinality(FieldEnds) < MaxArgs THEN Cardinality(FieldEnds) ELSE MaxArgs
    BY <2>2, <2>3, <2>4, <2>5
  <2>7. QED
    BY <2>1, <2>6, FieldsAreStrings
<1>2. QED
  BY <1>1, Inductive, PTL

-----------------------------------------------------------------------------
(* From every offset on there is a first 0: the one behind the message at   *)
(* the latest.                                                              *)
LEMMA FirstZero ==
  ASSUME IInv, InUse, NEW first \in Offsets
  PROVE  \E last \in Offsets : IsString(first, last)
<1> DEFINE Z == {p \in Offsets : first <= p /\ buffer[p] = "0"}
           R == OpToRel(<, Nat)
<1>1. first \in 0 .. MaxLength /\ MaxLength \in Nat /\ bufSize \in 0 .. MaxLength
  BY BoundAssumption DEF IInv, TypeOK, Offsets
<1>2. MaxLength \in Z
  <2>1. MaxLength \in Offsets /\ MaxLength >= bufSize /\ first <= MaxLength
    BY <1>1 DEF Offsets
  <2>2. message[MaxLength] = "0"
    BY <2>1 DEF IInv, CutSoFar
  <2>3. buffer[MaxLength] = "0"
    BY <2>1, <2>2 DEF IInv, CutSoFar
  <2>4. QED
    BY <2>1, <2>3
<1>3. Z \subseteq Nat
  BY <1>1 DEF Offsets
<1>4. IsWellFoundedOn(R, Nat)
  BY NatLessThanWellFounded
<1>5. PICK last \in Z : \A p \in Z : <<p, last>> \notin R
  <2> HIDE DEF Z, R
  <2>1. QED
    BY <1>2, <1>3, <1>4, WFMin
<1>6. last \in Offsets /\ first <= last /\ buffer[last] = "0"
  OBVIOUS
<1>7. ASSUME NEW p \in first .. last - 1, buffer[p] = "0" PROVE FALSE
  <2>1. p \in Offsets /\ first <= p /\ p < last /\ p \in Nat /\ last \in Nat
    BY <1>1, <1>6 DEF Offsets
  <2>2. p \in Z
    BY <1>7, <2>1
  <2>3. <<p, last>> \in R
    BY <2>1 DEF OpToRel
  <2>4. QED
    BY <1>5, <2>2, <2>3
<1>8. QED
  BY <1>6, <1>7 DEF IsString

(* For datagrams of every length: an argument missing in the message is     *)
(* Unset or made of this message's bytes.                                   *)
THEOREM NothingStale == Spec => []NoStaleText
<1>1. IInv => NoStaleText
  <2> SUFFICES ASSUME IInv, pc = "command",
                      NEW k \in nArgs .. Params[cmd], Args[k] # Unset
               PROVE  \E last \in Offsets :
                        /\ IsString(Args[k], last)
                        /\ \A p \in Args[k] .. last - 1 : p < bufSize /\ message[p] = buffer[p]
    BY DEF NoStaleText
  <2>1. InUse
    BY DEF InUse
  <2>2. cmd \in DOMAIN Params
    BY DEF IInv, Dispatched
  <2>3. k \in 0 .. MaxArgs - 1
    BY <2>2, ParamsBound, BoundAssumption DEF IInv, TypeOK
  <2>4. Args[k] \in Offsets
    BY <2>3 DEF IInv, TypeOK
  <2>5. PICK last \in Offsets : IsString(Args[k], last)
    BY <2>1, <2>4, FirstZero
  <2>6. ASSUME NEW p \in Args[k] .. last - 1
        PROVE  p < bufSize /\ message[p] = buffer[p]
    <3>1. p \in Offsets /\ bufSize \in 0 .. MaxLength
      BY <2>4, BoundAssumption DEF IInv, TypeOK, Offsets
    <3>2. buffer[p] # "0"
      BY <2>5 DEF IsString
    <3>3. buffer[p] = message[p]
      BY <2>1, <3>1, <3>2 DEF IInv, CutSoFar
    <3>4. ~ p >= bufSize
      BY <2>1, <3>1, <3>2, <3>3 DEF IInv, CutSoFar
    <3>5. QED
      BY <3>1, <3>3, <3>4, BoundAssumption DEF Offsets
  <2>7. QED
    BY <2>5, <2>6
<1>2. QED
  BY <1>1, Inductive, PTL
=============================================================================
