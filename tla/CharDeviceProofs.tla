--------------------------- MODULE CharDeviceProofs ---------------------------
(***************************************************************************)
(* Proofs about CharDevice: for every length of the buffer and any number  *)
(* of threads and files.                                                   *)
(***************************************************************************)
EXTENDS CharDevice, FiniteSetTheorems, TLAPS

\* The byte after the buffer is never written, so device_read stops there.
MessageInv == message \in [0 .. BUF_LEN -> Chars] /\ message[BUF_LEN] = NUL

\* A byte is copied only from before the terminator.
GoodCall(r) ==
  /\ r \in Calls
  /\ r.pc = "read_put" => r.ptr < BUF_LEN /\ r.length > 0
  /\ r.pc = "open" => r.file \in Files

CallInv == call \in [Threads -> Calls] /\ \A t \in Threads : GoodCall(call[t])

\* A file that is being opened is used by nobody else.
OpenInv ==
  \A t \in Threads : call[t].pc = "open" =>
    /\ call[t].file \notin open
    /\ \A u \in Threads \ {t} : call[u].file # call[t].file

\* The references are those of the open files, and there are none once rmmod
\* has begun.
LifeInv ==
  /\ mod \in {"unloaded", "live", "going"}
  /\ open \subseteq Files
  /\ pinned = IF mod = "live" THEN open ELSE {}
  /\ refs = Cardinality(pinned)

RestInv ==
  /\ already_open \in BOOLEAN /\ oops \in BOOLEAN /\ plain \in BOOLEAN
  /\ fpos \in [Files -> 0 .. BUF_LEN]
  /\ lastSet \in Seq(Bytes)

CInv == MessageInv /\ CallInv /\ OpenInv /\ LifeInv /\ RestInv

\* Thread t goes on with the call r: on no file, on the file it had, on an open
\* one, or opening one that nobody uses.
NewCall(t, r) ==
  /\ GoodCall(r)
  /\ call' = [call EXCEPT ![t] = r]
  /\ r.file \in {NoFile, call[t].file} \cup open \/ r.pc = "open"
  /\ r.pc = "open" => r.file \notin open /\ \A u \in Threads : call[u].file # r.file

LEMMA NewCallInv ==
  ASSUME CallInv, OpenInv, LifeInv, NEW t \in Threads, NEW r, NewCall(t, r),
         open' \subseteq open
  PROVE  CallInv' /\ OpenInv'
<1>1. /\ call'[t] = r
      /\ \A u \in Threads \ {t} : call'[u] = call[u]
      /\ call' \in [Threads -> Calls]
  BY DEF NewCall, CallInv, GoodCall
<1>2. CallInv'
  BY <1>1 DEF CallInv, NewCall, GoodCall
<1>3. ASSUME NEW v \in Threads, call'[v].pc = "open"
      PROVE  /\ call'[v].file \notin open
             /\ \A u \in Threads \ {v} : call'[u].file # call'[v].file
  <2>1. CASE v = t
    BY <1>1, <1>3, <2>1 DEF NewCall
  <2>2. CASE v # t
    <3>1. call'[v] = call[v] /\ call[v].file \notin open /\ call[v].file \in Files
      BY <1>1, <1>3, <2>2 DEF OpenInv, CallInv, GoodCall
    <3>2. r.file # call[v].file
      BY <1>3, <2>2, <3>1, CharAssumption DEF NewCall, OpenInv
    <3> QED BY <1>1, <1>3, <2>2, <3>1, <3>2 DEF OpenInv
  <2> QED BY <2>1, <2>2
<1>4. OpenInv'
  BY <1>3 DEF OpenInv
<1> QED BY <1>2, <1>4

-----------------------------------------------------------------------------
(***************************************************************************)
(* Strings.                                                                *)
(***************************************************************************)

LEMMA StringsAreSequences == Strings \subseteq Seq(Bytes)
<1> SUFFICES ASSUME NEW s \in Strings PROVE s \in Seq(Bytes)
  OBVIOUS
<1>1. PICK n \in 0 .. MaxLen : s \in [1 .. n -> Bytes]
  BY DEF Strings
<1> QED BY <1>1, CharAssumption

LEMMA StringTypes ==
  ASSUME NEW s \in Strings
  PROVE  /\ s \in Seq(Chars)
         /\ SetBytes(s) \in Seq(Chars)
         /\ SubSeq(s, 1, MinOf(Len(s), BUF_LEN)) \in Seq(Bytes)
<1>1. s \in Seq(Bytes) /\ s \in Seq(Chars) /\ NUL \in Chars
  BY StringsAreSequences DEF Chars
<1>2. Append(s, NUL) \in Seq(Chars) /\ Len(Append(s, NUL)) = Len(s) + 1 /\ Len(s) \in Nat
  BY <1>1
<1>3. MinOf(Len(s) + 1, BUF_LEN) \in 0 .. Len(s) + 1 /\ MinOf(Len(s), BUF_LEN) \in 0 .. Len(s)
  BY <1>2, CharAssumption DEF MinOf
<1>4. SubSeq(s, 1, MinOf(Len(s), BUF_LEN)) \in Seq(Bytes)
  BY <1>1, <1>3
<1>5. ASSUME NEW a \in Seq(Chars), NEW m \in 0 .. Len(a) PROVE SubSeq(a, 1, m) \in Seq(Chars)
  OBVIOUS
<1>6. SetBytes(s) \in Seq(Chars)
  BY <1>2, <1>3, <1>5 DEF SetBytes
<1> QED BY <1>1, <1>4, <1>6

-----------------------------------------------------------------------------
(***************************************************************************)
(* Every step keeps the invariant.                                         *)
(***************************************************************************)

\* A thread that makes a call on an open file.
LEMMA CallOnOpen ==
  ASSUME CInv, NEW t \in Threads, NEW p \in Labels \ {"open", "read_put"},
         NEW f \in open, NEW b \in Callers,
         NEW k \in 0 .. BUF_LEN, NEW n \in Nat, NEW s \in Seq(Chars),
         call' = [call EXCEPT ![t] = CallOn(p, f, b, k, n, s)]
  PROVE  NewCall(t, CallOn(p, f, b, k, n, s))
<1>1. f \in Files \cup {NoFile} /\ p \in Labels
  BY DEF CInv, LifeInv
<1>2. 0 \in 0 .. BUF_LEN /\ <<>> \in Seq(Chars)
  BY CharAssumption
<1>3. CallOn(p, f, b, k, n, s) \in Calls
  BY <1>1, <1>2 DEF Calls, CallOn
<1>4. CallOn(p, f, b, k, n, s).pc = p /\ CallOn(p, f, b, k, n, s).file = f
  BY DEF CallOn
<1> QED BY <1>3, <1>4 DEF NewCall, GoodCall

LEMMA IdleIsGood == GoodCall(Idle) /\ Idle.file = NoFile /\ Idle.pc = "user"
BY CharAssumption DEF GoodCall, Calls, Idle, CallOn, Labels, Callers

LEMMA CInvInit == Init => CInv
<1> SUFFICES ASSUME Init PROVE CInv
  OBVIOUS
<1>1. MessageInv /\ RestInv
  BY CharAssumption DEF Init, MessageInv, RestInv, Chars
<1>2. CallInv /\ OpenInv
  BY IdleIsGood DEF Init, CallInv, OpenInv, GoodCall
<1>3. LifeInv
  BY FS_EmptySet DEF Init, LifeInv
<1> QED BY <1>1, <1>2, <1>3 DEF CInv

\* A step of thread t that leaves the message and the life cycle alone.
LEMMA QuietStep ==
  ASSUME CInv, NEW t \in Threads, NEW r, NewCall(t, r),
         UNCHANGED <<message, life>>, RestInv'
  PROVE  CInv'
<1>1. CallInv' /\ OpenInv'
  BY NewCallInv DEF CInv, life
<1>2. MessageInv' /\ LifeInv'
  BY DEF CInv, MessageInv, LifeInv, life
<1> QED BY <1>1, <1>2 DEF CInv

LEMMA LifeCycleSteps ==
  ASSUME CInv, char_dev_init \/ Rmmod \/ char_dev_exit \/ FaultAfterUnload
  PROVE  CInv'
<1>1. CASE char_dev_init
  <2>1. MessageInv' /\ RestInv'
    <3>1. MessageInv'
      BY <1>1, CharAssumption DEF char_dev_init, MessageInv, Chars
    <3>2. /\ lastSet' = <<>> /\ already_open' = FALSE /\ plain' = FALSE
          /\ fpos' = fpos /\ oops' = oops
      BY <1>1 DEF char_dev_init
    <3>3. <<>> \in Seq(Bytes)
      OBVIOUS
    <3> QED BY <3>1, <3>2, <3>3 DEF CInv, RestInv
  <2>2. CallInv' /\ OpenInv'
    BY <1>1, IdleIsGood DEF char_dev_init, CallInv, OpenInv, GoodCall
  <2>3. LifeInv'
    BY <1>1 DEF char_dev_init, CInv, LifeInv
  <2> QED BY <2>1, <2>2, <2>3 DEF CInv
<1>2. CASE Rmmod
  <2>1. IsFiniteSet(pinned)
    BY CharAssumption, FS_Subset DEF CInv, LifeInv
  <2>2. pinned = {}
    BY <1>2, <2>1, FS_EmptySet DEF Rmmod, CInv, LifeInv
  <2> QED
    BY <1>2, <2>2 DEF Rmmod, history, CInv, MessageInv, CallInv, OpenInv, GoodCall,
                      LifeInv, RestInv
<1>3. CASE char_dev_exit
  BY <1>3 DEF char_dev_exit, history, CInv, MessageInv, CallInv, OpenInv, GoodCall,
              LifeInv, RestInv
<1>4. CASE FaultAfterUnload
  BY <1>4 DEF FaultAfterUnload, history, life, CInv, MessageInv, CallInv, OpenInv,
              GoodCall, LifeInv, RestInv
<1> QED BY <1>1, <1>2, <1>3, <1>4

LEMMA OpenSteps ==
  ASSUME CInv, NEW t \in Threads,
         LookUp(t) \/ device_open(t) \/ device_release(t) \/ ReleaseReturn(t)
  PROVE  CInv'
<1>1. CASE LookUp(t)
  <2>1. PICK f \in Files \ open :
          /\ \A u \in Threads : call[u].file # f
          /\ call' = [call EXCEPT ![t] = CallOn("open", f, "vfs", 0, 0, <<>>)]
    BY <1>1 DEF LookUp
  <2> DEFINE r == CallOn("open", f, "vfs", 0, 0, <<>>)
  <2>2. call' = [call EXCEPT ![t] = r]
    BY <2>1
  <2>3. r \in Calls /\ r.pc = "open" /\ r.file = f
    <3>1. "open" \in Labels /\ "vfs" \in Callers /\ 0 \in 0 .. BUF_LEN /\ <<>> \in Seq(Chars)
      BY CharAssumption DEF Labels, Callers
    <3>2. f \in Files \cup {NoFile} /\ 0 \in Nat
      OBVIOUS
    <3> QED BY <3>1, <3>2 DEF Calls, CallOn
  <2>4. NewCall(t, r)
    <3> HIDE DEF r
    <3> QED BY <2>1, <2>2, <2>3 DEF NewCall, GoodCall
  <2> QED BY <1>1, <2>4, QuietStep DEF LookUp, CInv, RestInv, history
<1>2. CASE device_open(t)
  <2>1. call[t].file \in Files \ open
    BY <1>2 DEF device_open, At, CInv, OpenInv, CallInv, GoodCall
  <2>2. MessageInv' /\ RestInv'
    <3>1. fpos' \in [Files -> 0 .. BUF_LEN]
      <4>1. fpos \in [Files -> 0 .. BUF_LEN] /\ fpos' = [fpos EXCEPT ![call[t].file] = 0]
        BY <1>2 DEF device_open, CInv, RestInv
      <4>2. 0 \in 0 .. BUF_LEN
        BY CharAssumption
      <4> QED BY <4>1, <4>2
    <3> QED BY <1>2, <3>1 DEF device_open, CInv, MessageInv, RestInv, history
  <2>3. /\ call'[t] = Idle /\ \A u \in Threads \ {t} : call'[u] = call[u]
        /\ call' \in [Threads -> Calls]
    BY <1>2, IdleIsGood DEF device_open, Return, CInv, CallInv, GoodCall
  <2>4. CallInv'
    BY <2>3, IdleIsGood DEF CInv, CallInv, GoodCall
  <2>5. ASSUME NEW v \in Threads, call'[v].pc = "open"
        PROVE  /\ call'[v].file \notin open'
               /\ \A u \in Threads \ {v} : call'[u].file # call'[v].file
    <3>1. v # t /\ call'[v] = call[v]
      BY <2>3, <2>5, IdleIsGood
    <3>2. /\ call[v].file \in Files /\ call[v].file \notin open
          /\ \A u \in Threads \ {v} : call[u].file # call[v].file
      BY <2>5, <3>1 DEF CInv, CallInv, OpenInv, GoodCall
    <3>3. call[t].file # call[v].file /\ open' = open \cup {call[t].file}
      BY <1>2, <3>1, <3>2 DEF device_open
    <3> QED BY <2>3, <3>1, <3>2, <3>3, IdleIsGood, CharAssumption
  <2>6. OpenInv'
    BY <2>5 DEF OpenInv
  <2>7. LifeInv'
    <3>1. CASE mod = "live"
      <4>1. IsFiniteSet(open) /\ pinned = open /\ refs = Cardinality(open)
        BY <3>1, CharAssumption, FS_Subset DEF CInv, LifeInv
      <4>2. Cardinality(open \cup {call[t].file}) = Cardinality(open) + 1
        BY <2>1, <4>1, FS_AddElement
      <4> QED BY <1>2, <2>1, <3>1, <4>1, <4>2
                 DEF device_open, TryModuleGet, CInv, LifeInv
    <3>2. CASE mod # "live"
      BY <1>2, <2>1, <3>2 DEF device_open, TryModuleGet, CInv, LifeInv
    <3> QED BY <3>1, <3>2
  <2> QED BY <2>2, <2>4, <2>6, <2>7 DEF CInv
<1>3. CASE device_release(t)
  <2>1. PICK f \in open : open' = open \ {f} /\ pinned' = pinned \ {f}
    BY <1>3 DEF device_release
  <2>2. NewCall(t, [call[t] EXCEPT !.pc = "release_return"])
    BY <1>3 DEF device_release, Goto, NewCall, CInv, CallInv, GoodCall, Calls, Labels
  <2>3. CallInv' /\ OpenInv'
    BY <2>1, <2>2, NewCallInv DEF CInv
  <2>4. MessageInv' /\ RestInv'
    BY <1>3 DEF device_release, CInv, MessageInv, RestInv, history
  <2>5. LifeInv'
    <3>1. CASE mod = "live"
      <4>1. IsFiniteSet(open) /\ pinned = open /\ refs = Cardinality(open)
        BY <3>1, CharAssumption, FS_Subset DEF CInv, LifeInv
      <4>2. Cardinality(open \ {f}) = Cardinality(open) - 1 /\ Cardinality(open) \in Nat
        BY <4>1, FS_RemoveElement, FS_CardinalityType
      <4>3. refs > 0
        BY <4>1, <4>2, FS_EmptySet, FS_CardinalityType
      <4> QED BY <1>3, <2>1, <3>1, <4>1, <4>2, <4>3 DEF device_release, CInv, LifeInv
    <3>2. CASE mod # "live"
      <4>1. pinned = {} /\ refs = 0 /\ pinned' = {}
        BY <2>1, <3>2, FS_EmptySet DEF CInv, LifeInv
      <4> QED BY <1>3, <2>1, <3>2, <4>1, FS_EmptySet DEF device_release, CInv, LifeInv
    <3> QED BY <3>1, <3>2
  <2> QED BY <2>3, <2>4, <2>5 DEF CInv
<1>4. CASE ReleaseReturn(t)
  <2>1. NewCall(t, Idle)
    BY <1>4, IdleIsGood DEF ReleaseReturn, Return, NewCall
  <2> QED BY <1>4, <2>1, QuietStep DEF ReleaseReturn, CInv, RestInv, history
<1> QED BY <1>1, <1>2, <1>3, <1>4

\* The calls on an open file.
LEMMA CallSteps ==
  ASSUME CInv, NEW t \in Threads,
         \/ device_read(t) \/ device_pread(t) \/ device_write(t)
         \/ IOCTL_SET_MSG(t) \/ IOCTL_GET_MSG(t) \/ IOCTL_GET_NTH_BYTE(t)
  PROVE  CInv'
<1>1. /\ {"read_eof", "write", "ioctl_done", "wild"} \subseteq Labels \ {"open", "read_put"}
      /\ "vfs" \in Callers /\ "pread" \in Callers /\ "ioctl" \in Callers
      /\ 0 \in 0 .. BUF_LEN /\ BUF_LEN + 19 \in Nat /\ <<>> \in Seq(Chars)
  BY CharAssumption DEF Labels, Callers
<1>2. CASE device_read(t)
  <2>1. PICK f \in open, length \in 0 .. MaxLen :
          call' = [call EXCEPT ![t] = CallOn("read_eof", f, "vfs", fpos[f], length, <<>>)]
    BY <1>2 DEF device_read
  <2>2. f \in Files /\ fpos \in [Files -> 0 .. BUF_LEN] /\ length \in Nat
    BY CharAssumption DEF CInv, LifeInv, RestInv
  <2>3. fpos[f] \in 0 .. BUF_LEN
    BY <2>2
  <2>4. NewCall(t, CallOn("read_eof", f, "vfs", fpos[f], length, <<>>))
    BY <1>1, <2>1, <2>2, <2>3, CallOnOpen
  <2> QED BY <1>2, <2>4, QuietStep DEF device_read, CInv, RestInv, history
<1>3. CASE device_write(t)
  <2>1. PICK f \in open, s \in Strings :
          call' = [call EXCEPT ![t] = CallOn("write", f, "vfs", 0, 0, s)]
    BY <1>3 DEF device_write
  <2>2. NewCall(t, CallOn("write", f, "vfs", 0, 0, s))
    BY <1>1, <2>1, StringTypes, CallOnOpen
  <2>3. RestInv'
    <3>1. UNCHANGED <<already_open, oops, fpos>> /\ plain' = TRUE /\ lastSet' = <<>>
      BY <1>3 DEF device_write
    <3>2. <<>> \in Seq(Bytes)
      OBVIOUS
    <3> QED BY <3>1, <3>2 DEF CInv, RestInv
  <2> QED BY <1>3, <2>2, <2>3, QuietStep DEF device_write
<1>4. CASE IOCTL_SET_MSG(t)
  <2>1. PICK f \in open, s \in Strings :
          /\ call' = [call EXCEPT ![t] = CallOn("write", f, "ioctl", 0, 0, SetBytes(s))]
          /\ lastSet' = IF s = <<>> \/ plain THEN lastSet
                        ELSE SubSeq(s, 1, MinOf(Len(s), BUF_LEN))
    BY <1>4 DEF IOCTL_SET_MSG
  <2>2. NewCall(t, CallOn("write", f, "ioctl", 0, 0, SetBytes(s)))
    BY <1>1, <2>1, StringTypes, CallOnOpen
  <2>3. lastSet' \in Seq(Bytes)
    BY <2>1, StringTypes DEF CInv, RestInv
  <2>4. RestInv'
    BY <1>4, <2>3 DEF IOCTL_SET_MSG, Cmpxchg, CInv, RestInv
  <2> QED BY <1>4, <2>2, <2>4, QuietStep DEF IOCTL_SET_MSG
<1>5. CASE IOCTL_GET_MSG(t)
  <2>1. PICK f \in open :
          call' = [call EXCEPT ![t] = CallOn("read_eof", f, "ioctl", 0, BUF_LEN + 19, <<>>)]
    BY <1>5 DEF IOCTL_GET_MSG
  <2>2. NewCall(t, CallOn("read_eof", f, "ioctl", 0, BUF_LEN + 19, <<>>))
    BY <1>1, <2>1, CallOnOpen
  <2>3. RestInv'
    BY <1>5 DEF IOCTL_GET_MSG, Cmpxchg, history, CInv, RestInv
  <2> QED BY <1>5, <2>2, <2>3, QuietStep DEF IOCTL_GET_MSG
<1>6. CASE IOCTL_GET_NTH_BYTE(t)
  <2>1. PICK f \in open, pc \in {"ioctl_done", "wild"} :
          call' = [call EXCEPT ![t] = CallOn(pc, f, "ioctl", 0, 0, <<>>)]
    BY <1>6 DEF IOCTL_GET_NTH_BYTE
  <2>2. NewCall(t, CallOn(pc, f, "ioctl", 0, 0, <<>>))
    BY <1>1, <2>1, CallOnOpen
  <2>3. RestInv'
    BY <1>6 DEF IOCTL_GET_NTH_BYTE, Cmpxchg, history, CInv, RestInv
  <2> QED BY <1>6, <2>2, <2>3, QuietStep DEF IOCTL_GET_NTH_BYTE
<1>7. CASE device_pread(t)
  <2>1. PICK f \in open :
          \/ \E offset \in 0 .. BUF_LEN, length \in 0 .. MaxLen :
               call' = [call EXCEPT ![t] = CallOn("read_eof", f, "pread", offset, length, <<>>)]
          \/ call' = [call EXCEPT ![t] = CallOn("wild", f, "pread", 0, 0, <<>>)]
    BY <1>7 DEF device_pread
  <2>2. RestInv' /\ UNCHANGED <<message, life>>
    BY <1>7 DEF device_pread, CInv, RestInv, history
  <2>3. CASE call' = [call EXCEPT ![t] = CallOn("wild", f, "pread", 0, 0, <<>>)]
    <3>1. NewCall(t, CallOn("wild", f, "pread", 0, 0, <<>>))
      BY <1>1, <2>3, CallOnOpen
    <3> QED BY <2>2, <3>1, QuietStep
  <2>4. ASSUME NEW offset \in 0 .. BUF_LEN, NEW length \in 0 .. MaxLen,
               call' = [call EXCEPT ![t] = CallOn("read_eof", f, "pread", offset, length, <<>>)]
        PROVE  CInv'
    <3>1. length \in Nat
      BY CharAssumption
    <3>2. NewCall(t, CallOn("read_eof", f, "pread", offset, length, <<>>))
      BY <1>1, <2>4, <3>1, CallOnOpen
    <3> QED BY <2>2, <3>2, QuietStep
  <2> QED BY <2>1, <2>3, <2>4
<1> QED BY <1>2, <1>3, <1>4, <1>5, <1>6, <1>7

LEMMA GotoCall ==
  ASSUME CInv, NEW t \in Threads, NEW p \in Labels \ {"open"}, Goto(t, p),
         p = "read_put" => call[t].ptr < BUF_LEN /\ call[t].length > 0
  PROVE  NewCall(t, [call[t] EXCEPT !.pc = p])
BY DEF Goto, NewCall, CInv, CallInv, GoodCall, Calls

LEMMA ReturnCall ==
  ASSUME NEW t \in Threads, Return(t) PROVE NewCall(t, Idle)
BY IdleIsGood DEF Return, NewCall

\* The bytes read are those before the terminator.
LEMMA ReadSteps ==
  ASSUME CInv, NEW t \in Threads,
         ReadEof(t) \/ ReadTest(t) \/ ReadPut(t) \/ ReadReturn(t)
  PROVE  CInv'
<1>1. /\ {"read_test", "read_put", "read_return", "ioctl_got"} \subseteq Labels \ {"open"}
      /\ "read_test" # "read_put" /\ "read_return" # "read_put" /\ "ioctl_got" # "read_put"
  BY DEF Labels
<1>2. call[t] \in Calls /\ call[t].ptr \in 0 .. BUF_LEN /\ call[t].length \in Nat
  BY DEF CInv, CallInv, GoodCall, Calls
<1>3. CASE ReadEof(t)
  <2>1. CASE message[call[t].ptr] = NUL
    <3> DEFINE r == [[call[t] EXCEPT !.ptr = 0] EXCEPT !.pc = "read_return"]
    <3>1. call' = [call EXCEPT ![t] = r]
      BY <1>2, <1>3, <2>1 DEF ReadEof, CInv, CallInv
    <3>2. 0 \in 0 .. BUF_LEN
      BY CharAssumption
    <3>3. r \in Calls /\ r.pc = "read_return" /\ r.file = call[t].file
      BY <1>1, <1>2, <3>2 DEF Calls
    <3>4. NewCall(t, r)
      <4> HIDE DEF r
      <4> QED BY <3>1, <3>3 DEF NewCall, GoodCall
    <3> QED BY <1>3, <3>4, QuietStep DEF ReadEof, CInv, RestInv, history
  <2>2. CASE message[call[t].ptr] # NUL
    <3>1. NewCall(t, [call[t] EXCEPT !.pc = "read_test"])
      BY <1>1, <1>3, <2>2, GotoCall DEF ReadEof
    <3> QED BY <1>3, <3>1, QuietStep DEF ReadEof, CInv, RestInv, history
  <2> QED BY <2>1, <2>2
<1>4. CASE ReadTest(t)
  <2>1. CASE call[t].length > 0 /\ message[call[t].ptr] # NUL
    <3>1. call[t].ptr < BUF_LEN
      BY <1>2, <2>1, CharAssumption DEF CInv, MessageInv
    <3>2. Goto(t, "read_put")
      BY <1>4, <2>1 DEF ReadTest
    <3>3. NewCall(t, [call[t] EXCEPT !.pc = "read_put"])
      BY <1>1, <2>1, <3>1, <3>2, GotoCall
    <3> QED BY <1>4, <3>3, QuietStep DEF ReadTest, CInv, RestInv, history
  <2>2. CASE ~(call[t].length > 0 /\ message[call[t].ptr] # NUL)
    <3>1. Goto(t, "read_return")
      BY <1>4, <2>2 DEF ReadTest
    <3>2. NewCall(t, [call[t] EXCEPT !.pc = "read_return"])
      BY <1>1, <3>1, GotoCall
    <3> QED BY <1>4, <3>2, QuietStep DEF ReadTest, CInv, RestInv, history
  <2> QED BY <2>1, <2>2
<1>5. CASE ReadPut(t)
  <2>1. /\ call[t].ptr < BUF_LEN /\ call[t].length > 0
        /\ call[t].out \in Seq(Chars) /\ message[call[t].ptr] \in Chars
    BY <1>2, <1>5 DEF ReadPut, At, CInv, MessageInv, CallInv, GoodCall, Calls
  <2> DEFINE o == IF call[t].caller = "ioctl" THEN Append(call[t].out, message[call[t].ptr])
                  ELSE call[t].out
             r == [[[[call[t] EXCEPT !.out = o] EXCEPT !.ptr = @ + 1] EXCEPT !.length = @ - 1]
                     EXCEPT !.pc = "read_test"]
  <2>2. o \in Seq(Chars)
    BY <2>1
  <2>3. call[t].ptr + 1 \in 0 .. BUF_LEN /\ call[t].length - 1 \in Nat
    BY <1>2, <2>1, CharAssumption
  <2>4. call' = [call EXCEPT ![t] = r]
    BY <1>2, <1>5 DEF ReadPut, CInv, CallInv
  <2>5. r \in Calls /\ r.pc = "read_test" /\ r.file = call[t].file
    <3> HIDE DEF o
    <3> QED BY <1>1, <1>2, <2>2, <2>3 DEF Calls
  <2>6. NewCall(t, r)
    <3> HIDE DEF r
    <3> QED BY <2>4, <2>5 DEF NewCall, GoodCall
  <2> QED BY <1>5, <2>6, QuietStep DEF ReadPut, CInv, RestInv, history
<1>6. CASE ReadReturn(t)
  <2>1. CASE call[t].caller = "ioctl"
    <3>1. NewCall(t, [call[t] EXCEPT !.pc = "ioctl_got"])
      BY <1>1, <1>6, <2>1, GotoCall DEF ReadReturn
    <3> QED BY <1>6, <2>1, <3>1, QuietStep DEF ReadReturn, CInv, RestInv, history
  <2>2. CASE call[t].caller # "ioctl"
    <3>1. fpos' \in {fpos, [fpos EXCEPT ![call[t].file] = call[t].ptr]}
      BY <1>6 DEF ReadReturn
    <3>2. fpos' \in [Files -> 0 .. BUF_LEN]
      BY <1>2, <3>1 DEF CInv, RestInv
    <3>3. RestInv'
      BY <1>6, <3>2 DEF ReadReturn, history, CInv, RestInv
    <3>4. NewCall(t, Idle)
      BY <1>6, <2>2, ReturnCall DEF ReadReturn
    <3> QED BY <1>6, <3>3, <3>4, QuietStep DEF ReadReturn
  <2> QED BY <2>1, <2>2
<1> QED BY <1>3, <1>4, <1>5, <1>6

\* A load from outside the array, and a thread killed by one.
LEMMA WildSteps ==
  ASSUME CInv, NEW t \in Threads, WildLoad(t) \/ Killed(t)
  PROVE  CInv'
<1>1. RestInv' /\ UNCHANGED <<message, life>>
  BY DEF WildLoad, Killed, CInv, RestInv, history
<1>2. CASE WildLoad(t)
  <2>1. "ioctl_done" \in Labels \ {"open"} /\ "ioctl_done" # "read_put"
    BY DEF Labels
  <2>2. \E r : NewCall(t, r)
    BY <1>2, <2>1, GotoCall, ReturnCall DEF WildLoad
  <2> QED BY <1>1, <2>2, QuietStep
<1>3. CASE Killed(t)
  <2>1. PICK f \in {NoFile, call[t].file} :
          call' = [call EXCEPT ![t] = CallOn("killed", f, call[t].caller, 0, 0, <<>>)]
    BY <1>3 DEF Killed
  <2> DEFINE r == CallOn("killed", f, call[t].caller, 0, 0, <<>>)
  <2>2. /\ f \in Files \cup {NoFile} /\ call[t].caller \in Callers /\ "killed" \in Labels
        /\ 0 \in 0 .. BUF_LEN /\ <<>> \in Seq(Chars) /\ 0 \in Nat
    BY <2>1, CharAssumption DEF CInv, CallInv, Calls, Labels
  <2>3. r \in Calls /\ r.pc = "killed" /\ r.file = f
    BY <2>2 DEF Calls, CallOn
  <2>4. NewCall(t, r)
    <3>1. call' = [call EXCEPT ![t] = r]
      BY <2>1
    <3> HIDE DEF r
    <3> QED BY <2>1, <2>3, <3>1 DEF NewCall, GoodCall
  <2> QED BY <1>1, <2>4, QuietStep
<1> QED BY <1>2, <1>3

\* The last byte of the array is out of device_write's reach.
LEMMA WriteSteps ==
  ASSUME CInv, NEW t \in Threads,
         WriteByte(t) \/ WriteReturn(t) \/ IoctlGot(t) \/ ioctl_return(t)
  PROVE  CInv'
<1>1. "ioctl_done" \in Labels \ {"open"} /\ "ioctl_done" # "read_put"
  BY DEF Labels
<1>2. /\ call[t] \in Calls /\ call[t].i \in 0 .. BUF_LEN /\ call[t].src \in Seq(Chars)
      /\ BUF_LEN \in Nat
  BY CharAssumption DEF CInv, CallInv, GoodCall, Calls
<1>3. CASE WriteByte(t)
  <2>1. /\ call[t].i < Len(call[t].src) /\ call[t].i < BUF_LEN
        /\ message' = [message EXCEPT ![call[t].i] = call[t].src[call[t].i + 1]]
        /\ call' = [call EXCEPT ![t].i = @ + 1]
        /\ call[t].pc = "write"
    BY <1>3 DEF WriteByte, WriteMore, At
  <2>2. /\ call[t].src[call[t].i + 1] \in Chars
        /\ call[t].i + 1 \in 0 .. BUF_LEN /\ call[t].i # BUF_LEN
    BY <1>2, <2>1
  <2>3. MessageInv'
    BY <1>2, <2>1, <2>2 DEF CInv, MessageInv
  <2> DEFINE r == [call[t] EXCEPT !.i = @ + 1]
  <2>4. r \in Calls /\ r.pc = "write" /\ r.file = call[t].file /\ call' = [call EXCEPT ![t] = r]
    BY <1>2, <2>1, <2>2 DEF Calls, CInv, CallInv
  <2>5. NewCall(t, r)
    <3> HIDE DEF r
    <3> QED BY <2>4 DEF NewCall, GoodCall
  <2>6. open' = open
    BY <1>3 DEF WriteByte, life
  <2>7. CallInv' /\ OpenInv'
    <3> HIDE DEF r
    <3> QED BY <2>5, <2>6, NewCallInv DEF CInv
  <2>8. LifeInv' /\ RestInv'
    BY <1>3 DEF WriteByte, CInv, LifeInv, RestInv, life, history
  <2> QED BY <2>3, <2>7, <2>8 DEF CInv
<1>4. CASE WriteReturn(t)
  <2>1. \E r : NewCall(t, r)
    BY <1>1, <1>4, GotoCall, ReturnCall DEF WriteReturn
  <2> QED BY <1>4, <2>1, QuietStep DEF WriteReturn, CInv, RestInv, history
<1>5. CASE IoctlGot(t)
  <2>1. NewCall(t, [call[t] EXCEPT !.pc = "ioctl_done"])
    BY <1>1, <1>5, GotoCall DEF IoctlGot
  <2> QED BY <1>5, <2>1, QuietStep DEF IoctlGot, CInv, RestInv, history
<1>6. CASE ioctl_return(t)
  <2>1. NewCall(t, Idle)
    BY <1>6, ReturnCall DEF ioctl_return
  <2> QED BY <1>6, <2>1, QuietStep DEF ioctl_return, CInv, RestInv, history
<1> QED BY <1>3, <1>4, <1>5, <1>6

LEMMA CInvStep == CInv /\ [Next]_vars => CInv'
<1> SUFFICES ASSUME CInv, [Next]_vars PROVE CInv'
  OBVIOUS
<1>1. CASE char_dev_init \/ Rmmod \/ char_dev_exit \/ FaultAfterUnload
  BY <1>1, LifeCycleSteps
<1>2. ASSUME NEW t \in Threads,
             \/ LookUp(t) \/ device_release(t)
             \/ device_read(t) \/ device_pread(t) \/ device_write(t)
             \/ IOCTL_SET_MSG(t) \/ IOCTL_GET_MSG(t) \/ IOCTL_GET_NTH_BYTE(t)
             \/ Inside(t)
      PROVE  CInv'
  BY <1>2, OpenSteps, CallSteps, ReadSteps, WildSteps, WriteSteps DEF Inside
<1>3. CASE UNCHANGED vars
  BY <1>3 DEF vars, CInv, MessageInv, CallInv, OpenInv, GoodCall, LifeInv, RestInv
<1> QED BY <1>1, <1>2, <1>3 DEF Next

LEMMA CInvHolds == Spec => []CInv
BY CInvInit, CInvStep, PTL DEF Spec

-----------------------------------------------------------------------------
(***************************************************************************)
(* The theorems.                                                           *)
(***************************************************************************)

\* A device_read that starts inside the message array never leaves it, however
\* the message is rewritten under it: msg_ptr stays within the buffer and its
\* terminator, and so do the file positions, from which every read(2) starts;
\* device_write's index stays within the buffer.  (A pread(2) with an offset
\* outside the array, and IOCTL_GET_NTH_BYTE with such an index, do leave it.)
THEOREM TypeCorrect == Spec => []TypeOK
<1>1. CInv => TypeOK
  <2> SUFFICES ASSUME CInv PROVE TypeOK
    OBVIOUS
  <2>1. IsFiniteSet(pinned) /\ pinned \subseteq open
    BY CharAssumption, FS_Subset DEF CInv, LifeInv
  <2>2. refs \in Nat
    BY <2>1, FS_CardinalityType DEF CInv, LifeInv
  <2> QED BY <2>1, <2>2 DEF CInv, MessageInv, CallInv, LifeInv, RestInv, TypeOK
<1> QED BY <1>1, CInvHolds, PTL

\* A file opened before rmmod began keeps the module loaded until it is
\* released (device_open's try_module_get, device_release's module_put).
THEOREM OpenFilesPin == Spec => []OpenFilesPinModule
<1>1. CInv => OpenFilesPinModule
  BY DEF CInv, LifeInv, OpenFilesPinModule
<1> QED BY <1>1, CInvHolds, PTL

-----------------------------------------------------------------------------
(***************************************************************************)
(* What IOCTL_GET_MSG returns.                                             *)
(***************************************************************************)

\* The array m holds the message s and its terminator.
Match(m, s) ==
  /\ Len(s) <= BUF_LEN
  /\ \A k \in 1 .. Len(s) : m[k - 1] = s[k]
  /\ m[Len(s)] = NUL

\* src is what device_write gets for the message s: with its NUL, if there is
\* room for it.
Source(src, s) ==
  /\ Len(s) <= BUF_LEN /\ Len(src) = MinOf(Len(s) + 1, BUF_LEN)
  /\ \A k \in 1 .. Len(s) : src[k] = s[k]
  /\ Len(s) < BUF_LEN => src[Len(s) + 1] = NUL

\* The call r of an ioctl: a set has copied the first bytes of its message, and
\* a get those of the last message set.
Progress(r, m, s) ==
  /\ r.pc = "write" =>
       \/ r.src = <<>> /\ Match(m, s)
       \/ Source(r.src, s) /\ r.i <= Len(r.src) /\ \A k \in 1 .. r.i : m[k - 1] = r.src[k]
  /\ r.pc # "write" => Match(m, s)
  /\ r.pc = "read_eof" => r.ptr = 0 /\ r.out = <<>> /\ r.length > BUF_LEN
  /\ r.pc \in {"read_test", "read_put"} =>
       r.ptr <= Len(s) /\ r.out = SubSeq(s, 1, r.ptr) /\ r.length + r.ptr > BUF_LEN
  /\ r.pc = "read_put" => r.ptr < Len(s)
  /\ r.pc \in {"read_return", "ioctl_got"} => r.out = s

InIoctl(t) == call[t].caller = "ioctl"

\* The flag admits one ioctl, and as long as write(2) has not been called the
\* message is the last one set, or on its way there.
GInv ==
  /\ \A t \in Threads : InIoctl(t) => already_open /\ \A u \in Threads : InIoctl(u) => u = t
  /\ \A t \in Threads : call[t].pc \in {"ioctl_got", "ioctl_done"} => InIoctl(t)
  /\ ~plain =>
       /\ \A t \in Threads : InIoctl(t) => Progress(call[t], message, lastSet)
       /\ \A t \in Threads : call[t].pc = "write" => InIoctl(t)
       /\ (\A t \in Threads : ~InIoctl(t)) => Match(message, lastSet)

\* What IOCTL_SET_MSG hands to device_write for a string that is not empty.
LEMMA SetBytesSource ==
  ASSUME NEW s \in Strings, s # <<>>
  PROVE  Source(SetBytes(s), SubSeq(s, 1, MinOf(Len(s), BUF_LEN)))
<1>1. s \in Seq(Chars) /\ Len(s) \in Nat /\ BUF_LEN \in Nat /\ NUL \in Chars
  BY StringTypes, CharAssumption DEF Chars
<1> DEFINE a == Append(s, NUL)
           n == MinOf(Len(s), BUF_LEN)
           m == MinOf(Len(s) + 1, BUF_LEN)
           c == SubSeq(s, 1, n)
           b == SubSeq(a, 1, m)
<1>2. /\ n \in 0 .. Len(s) /\ n <= BUF_LEN /\ m \in 0 .. Len(s) + 1
      /\ n <= m /\ m = MinOf(n + 1, BUF_LEN)
      /\ n < BUF_LEN => n = Len(s) /\ m = n + 1
  BY <1>1 DEF MinOf
<1>3. /\ a \in Seq(Chars) /\ Len(a) = Len(s) + 1 /\ a[Len(s) + 1] = NUL
      /\ \A k \in 1 .. Len(s) : a[k] = s[k]
  BY <1>1
<1>4. Len(c) = n /\ \A k \in 1 .. n : c[k] = s[k]
  <2> HIDE DEF n
  <2> QED BY <1>1, <1>2
<1>5. Len(b) = m /\ \A k \in 1 .. m : b[k] = a[k]
  <2> HIDE DEF m, a
  <2> QED BY <1>1, <1>2, <1>3
<1>6. SetBytes(s) = b
  BY DEF SetBytes
<1>7. Source(b, c)
  <2> HIDE DEF n, m, a, b, c
  <2> QED BY <1>1, <1>2, <1>3, <1>4, <1>5 DEF Source
<1> QED BY <1>6, <1>7

\* The whole message has been copied: the array holds it, and its terminator is
\* the one copied or the last byte of the array.
LEMMA CopiedMatches ==
  ASSUME MessageInv, NEW s \in Seq(Bytes), NEW src \in Seq(Chars), Source(src, s),
         \A k \in 1 .. Len(src) : message[k - 1] = src[k]
  PROVE  Match(message, s)
<1>1. Len(s) \in Nat /\ Len(s) <= Len(src) /\ BUF_LEN \in Nat /\ Len(src) \in Nat
  BY CharAssumption DEF Source, MinOf
<1>2. \A k \in 1 .. Len(s) : message[k - 1] = s[k]
  BY <1>1 DEF Source
<1>3. message[Len(s)] = NUL
  <2>1. CASE Len(s) < BUF_LEN
    <3>1. Len(src) = Len(s) + 1 /\ src[Len(s) + 1] = NUL
      BY <1>1, <2>1 DEF Source, MinOf
    <3>2. message[(Len(s) + 1) - 1] = src[Len(s) + 1] /\ (Len(s) + 1) - 1 = Len(s)
      BY <1>1, <3>1
    <3> QED BY <3>1, <3>2
  <2>2. CASE Len(s) = BUF_LEN
    BY <2>2 DEF MessageInv
  <2> QED BY <1>1, <2>1, <2>2 DEF Source
<1> QED BY <1>2, <1>3 DEF Match, Source

\* In an array that holds s, the first NUL is the one after s.
LEMMA FirstNul ==
  ASSUME NEW s \in Seq(Bytes), Match(message, s), NEW p \in Nat, p <= Len(s)
  PROVE  /\ p < Len(s) => message[p] = s[p + 1]
         /\ message[p] = NUL <=> p = Len(s)
<1>1. CASE p < Len(s)
  <2>1. p + 1 \in 1 .. Len(s) /\ (p + 1) - 1 = p
    BY <1>1
  <2>2. message[p] = s[p + 1] /\ s[p + 1] \in Bytes
    BY <2>1 DEF Match
  <2> QED BY <1>1, <2>2, CharAssumption
<1>2. CASE p = Len(s)
  BY <1>2 DEF Match
<1> QED BY <1>1, <1>2

\* A thread goes on with a call r outside device_ioctl: write(2) has been
\* called, or the message is left alone and r does not write it.
LEMMA OutsideIoctl ==
  ASSUME CInv, GInv, NEW t \in Threads, NEW r, call' = [call EXCEPT ![t] = r],
         r.caller # "ioctl", r.pc \notin {"ioctl_got", "ioctl_done"},
         already_open' = already_open \/ InIoctl(t),
         plain' \/ /\ UNCHANGED <<message, history>> /\ r.pc # "write"
                   /\ InIoctl(t) => call[t].pc # "write"
  PROVE  GInv'
<1>1. /\ call'[t] = r /\ \A u \in Threads \ {t} : call'[u] = call[u]
  BY DEF CInv, CallInv
<1>2. \A u \in Threads : InIoctl(u)' => u # t /\ InIoctl(u) /\ call'[u] = call[u]
  BY <1>1 DEF InIoctl
<1>3. \A u \in Threads : InIoctl(u)' => already_open' /\ \A v \in Threads : InIoctl(v)' => v = u
  BY <1>2 DEF GInv
<1>4. \A u \in Threads : call'[u].pc \in {"ioctl_got", "ioctl_done"} => InIoctl(u)'
  BY <1>1 DEF GInv, InIoctl
<1>5. ASSUME ~plain'
      PROVE  /\ \A u \in Threads : InIoctl(u)' => Progress(call[u], message, lastSet)'
             /\ \A u \in Threads : call'[u].pc = "write" => InIoctl(u)'
             /\ (\A u \in Threads : ~InIoctl(u)') => Match(message, lastSet)'
  <2>1. UNCHANGED <<message, lastSet, plain>> /\ ~plain
    BY <1>5 DEF history
  <2>2. \A u \in Threads : InIoctl(u)' => Progress(call[u], message, lastSet)'
    BY <1>2, <2>1 DEF GInv, Progress, Match, Source
  <2>3. \A u \in Threads : call'[u].pc = "write" => InIoctl(u)'
    BY <1>1, <1>5, <2>1 DEF GInv, InIoctl
  <2>4. ASSUME \A u \in Threads : ~InIoctl(u)' PROVE Match(message, lastSet)
    <3>1. \A u \in Threads \ {t} : ~InIoctl(u)
      BY <1>1, <2>4 DEF InIoctl
    <3>2. CASE InIoctl(t)
      BY <1>5, <2>1, <3>2 DEF GInv, Progress
    <3>3. CASE ~InIoctl(t)
      BY <2>1, <3>1, <3>3 DEF GInv
    <3> QED BY <3>2, <3>3
  <2> QED BY <2>1, <2>2, <2>3, <2>4 DEF Match
<1> QED BY <1>3, <1>4, <1>5 DEF GInv

\* A thread enters device_ioctl or goes on there with a call r.
LEMMA InsideIoctl ==
  ASSUME CInv, GInv, NEW t \in Threads, NEW r, call' = [call EXCEPT ![t] = r],
         r.caller = "ioctl",
         \/ InIoctl(t) /\ already_open' = already_open
         \/ ~already_open /\ already_open',
         plain' = plain, ~plain => Progress(r, message', lastSet')
  PROVE  GInv'
<1>1. /\ call'[t] = r /\ \A u \in Threads \ {t} : call'[u] = call[u]
  BY DEF CInv, CallInv
<1>2. \A u \in Threads : InIoctl(u)' <=> u = t
  BY <1>1 DEF InIoctl, GInv
<1>3. already_open'
  BY DEF GInv
<1>4. \A u \in Threads : call'[u].pc \in {"ioctl_got", "ioctl_done"} => InIoctl(u)'
  BY <1>1 DEF GInv, InIoctl
<1>5. ASSUME ~plain'
      PROVE  /\ \A u \in Threads : InIoctl(u)' => Progress(call[u], message, lastSet)'
             /\ \A u \in Threads : call'[u].pc = "write" => InIoctl(u)'
             /\ (\A u \in Threads : ~InIoctl(u)') => Match(message, lastSet)'
  <2>1. \A u \in Threads : InIoctl(u)' => Progress(call[u], message, lastSet)'
    BY <1>1, <1>2, <1>5 DEF Progress, Match, Source
  <2>2. \A u \in Threads : call'[u].pc = "write" => InIoctl(u)'
    BY <1>1, <1>2, <1>5 DEF GInv, InIoctl
  <2> QED BY <1>2, <2>1, <2>2
<1> QED BY <1>2, <1>3, <1>4, <1>5 DEF GInv

LEMMA GInvInit == Init => GInv
<1> SUFFICES ASSUME Init PROVE GInv
  OBVIOUS
<1>1. Match(message, <<>>)
  BY CharAssumption DEF Init, Match
<1>2. \A t \in Threads : call[t].caller = "vfs" /\ call[t].pc = "user"
  BY DEF Init, Idle, CallOn
<1>3. lastSet = <<>>
  BY DEF Init
<1> QED BY <1>1, <1>2, <1>3 DEF GInv, InIoctl

LEMMA IdleIsOutside == Idle.caller = "vfs" /\ Idle.pc = "user"
BY DEF Idle, CallOn

LEMMA GInvLifeCycle ==
  ASSUME CInv, GInv, char_dev_init \/ Rmmod \/ char_dev_exit \/ FaultAfterUnload
  PROVE  GInv'
<1>1. CASE char_dev_init
  <2>1. /\ message' = [k \in 0 .. BUF_LEN |-> NUL] /\ lastSet' = <<>>
        /\ call' = [t \in Threads |-> Idle]
    BY <1>1 DEF char_dev_init
  <2>2. Match(message', <<>>)
    BY <2>1, CharAssumption DEF Match
  <2>3. \A t \in Threads : ~InIoctl(t)' /\ call'[t].pc = "user"
    BY <1>1, <2>1, IdleIsOutside DEF char_dev_init, InIoctl
  <2> QED BY <2>1, <2>2, <2>3 DEF GInv, Match
<1>2. CASE Rmmod \/ char_dev_exit \/ FaultAfterUnload
  <2>1. UNCHANGED <<message, already_open, call, lastSet, plain>>
    BY <1>2 DEF Rmmod, char_dev_exit, FaultAfterUnload, history
  <2> QED BY <2>1 DEF GInv, InIoctl, Progress, Match, Source
<1> QED BY <1>1, <1>2

LEMMA GInvOpen ==
  ASSUME CInv, GInv, NEW t \in Threads,
         \/ LookUp(t) \/ device_open(t) \/ device_release(t) \/ ReleaseReturn(t)
         \/ device_read(t) \/ device_pread(t) \/ device_write(t)
  PROVE  GInv'
<1>1. CASE LookUp(t)
  <2>1. PICK f : call' = [call EXCEPT ![t] = CallOn("open", f, "vfs", 0, 0, <<>>)]
    BY <1>1 DEF LookUp
  <2>2. /\ CallOn("open", f, "vfs", 0, 0, <<>>).caller = "vfs"
        /\ CallOn("open", f, "vfs", 0, 0, <<>>).pc = "open"
    BY DEF CallOn
  <2> QED BY <1>1, <2>1, <2>2, OutsideIoctl DEF LookUp, At
<1>2. CASE device_open(t)
  BY <1>2, IdleIsOutside, OutsideIoctl DEF device_open, Return, At
<1>3. CASE device_release(t)
  <2> DEFINE r == [call[t] EXCEPT !.pc = "release_return"]
  <2>1. call' = [call EXCEPT ![t] = r] /\ call[t] \in Calls
    BY <1>3 DEF device_release, Goto, CInv, CallInv
  <2>2. r.caller = call[t].caller /\ r.pc = "release_return"
    BY <2>1 DEF Calls
  <2>3. /\ UNCHANGED <<message, already_open, history>> /\ call[t].pc = "user"
    BY <1>3 DEF device_release, At
  <2> HIDE DEF r
  <2>4. CASE InIoctl(t)
    <3>1. ~plain => Progress(r, message, lastSet)
      BY <2>2, <2>3, <2>4 DEF GInv, Progress
    <3>2. ~plain => Progress(r, message', lastSet')
      BY <2>3, <3>1 DEF history
    <3> QED BY <2>1, <2>2, <2>3, <2>4, <3>2, InsideIoctl DEF InIoctl, history
  <2>5. CASE ~InIoctl(t)
    BY <2>1, <2>2, <2>3, <2>5, OutsideIoctl DEF InIoctl
  <2> QED BY <2>4, <2>5
<1>4. CASE ReleaseReturn(t)
  BY <1>4, IdleIsOutside, OutsideIoctl DEF ReleaseReturn, Return, At
<1>5. CASE device_read(t)
  <2>1. PICK f, n : call' = [call EXCEPT ![t] = CallOn("read_eof", f, "vfs", fpos[f], n, <<>>)]
    BY <1>5 DEF device_read
  <2>2. /\ CallOn("read_eof", f, "vfs", fpos[f], n, <<>>).caller = "vfs"
        /\ CallOn("read_eof", f, "vfs", fpos[f], n, <<>>).pc = "read_eof"
    BY DEF CallOn
  <2> QED BY <1>5, <2>1, <2>2, OutsideIoctl DEF device_read, At
<1>6. CASE device_write(t)
  <2>1. PICK f, s : call' = [call EXCEPT ![t] = CallOn("write", f, "vfs", 0, 0, s)]
    BY <1>6 DEF device_write
  <2>2. /\ CallOn("write", f, "vfs", 0, 0, s).caller = "vfs"
        /\ CallOn("write", f, "vfs", 0, 0, s).pc = "write"
    BY DEF CallOn
  <2> QED BY <1>6, <2>1, <2>2, OutsideIoctl DEF device_write
<1>7. CASE device_pread(t)
  <2>1. PICK p, f, k, n :
          /\ p \in {"read_eof", "wild"}
          /\ call' = [call EXCEPT ![t] = CallOn(p, f, "pread", k, n, <<>>)]
    BY <1>7 DEF device_pread
  <2>2. /\ CallOn(p, f, "pread", k, n, <<>>).caller = "pread"
        /\ CallOn(p, f, "pread", k, n, <<>>).pc = p
    BY DEF CallOn
  <2> QED BY <1>7, <2>1, <2>2, OutsideIoctl DEF device_pread, At
<1> QED BY <1>1, <1>2, <1>3, <1>4, <1>5, <1>6, <1>7

\* An ioctl that gets the flag finds nobody inside, so the message is the last
\* one set.
LEMMA GInvIoctl ==
  ASSUME CInv, GInv, NEW t \in Threads,
         IOCTL_SET_MSG(t) \/ IOCTL_GET_MSG(t) \/ IOCTL_GET_NTH_BYTE(t)
  PROVE  GInv'
<1>1. ~already_open /\ already_open' /\ UNCHANGED <<message, plain>>
  BY DEF IOCTL_SET_MSG, IOCTL_GET_MSG, IOCTL_GET_NTH_BYTE, Cmpxchg, history
<1>2. ~plain => Match(message, lastSet)
  BY <1>1 DEF GInv
<1>3. CASE IOCTL_SET_MSG(t)
  <2>1. PICK f \in open, s \in Strings :
          /\ call' = [call EXCEPT ![t] = CallOn("write", f, "ioctl", 0, 0, SetBytes(s))]
          /\ lastSet' = IF s = <<>> \/ plain THEN lastSet
                        ELSE SubSeq(s, 1, MinOf(Len(s), BUF_LEN))
    BY <1>3 DEF IOCTL_SET_MSG
  <2> DEFINE r == CallOn("write", f, "ioctl", 0, 0, SetBytes(s))
  <2>2. r.caller = "ioctl" /\ r.pc = "write" /\ r.src = SetBytes(s) /\ r.i = 0
    BY DEF CallOn
  <2>3. call' = [call EXCEPT ![t] = r]
    BY <2>1
  <2> HIDE DEF r
  <2>4. ASSUME ~plain PROVE Progress(r, message', lastSet')
    <3>1. CASE s = <<>>
      <4>1. r.src = <<>> /\ lastSet' = lastSet /\ message' = message
        BY <1>1, <2>1, <2>2, <3>1 DEF SetBytes
      <4> QED BY <1>2, <2>2, <2>4, <4>1 DEF Progress
    <3>2. CASE s # <<>>
      <4>1. Source(r.src, lastSet')
        BY <2>1, <2>2, <2>4, <3>2, SetBytesSource
      <4>2. r.i <= Len(r.src)
        BY <2>2, StringTypes
      <4> QED BY <2>2, <4>1, <4>2 DEF Progress
    <3> QED BY <3>1, <3>2
  <2> QED BY <1>1, <2>2, <2>3, <2>4, InsideIoctl
<1>4. CASE IOCTL_GET_MSG(t)
  <2>1. PICK f \in open :
          call' = [call EXCEPT ![t] = CallOn("read_eof", f, "ioctl", 0, BUF_LEN + 19, <<>>)]
    BY <1>4 DEF IOCTL_GET_MSG
  <2> DEFINE r == CallOn("read_eof", f, "ioctl", 0, BUF_LEN + 19, <<>>)
  <2>2. /\ r.caller = "ioctl" /\ r.pc = "read_eof" /\ r.ptr = 0 /\ r.out = <<>>
        /\ r.length = BUF_LEN + 19
    BY DEF CallOn
  <2>3. call' = [call EXCEPT ![t] = r] /\ lastSet' = lastSet
    BY <1>4, <2>1 DEF IOCTL_GET_MSG, history
  <2> HIDE DEF r
  <2>4. r.length > BUF_LEN
    BY <2>2, CharAssumption
  <2>5. ~plain => Progress(r, message', lastSet')
    BY <1>1, <1>2, <2>2, <2>3, <2>4 DEF Progress
  <2> QED BY <1>1, <2>2, <2>3, <2>5, InsideIoctl
<1>5. CASE IOCTL_GET_NTH_BYTE(t)
  <2>1. PICK f \in open, pc \in {"ioctl_done", "wild"} :
          call' = [call EXCEPT ![t] = CallOn(pc, f, "ioctl", 0, 0, <<>>)]
    BY <1>5 DEF IOCTL_GET_NTH_BYTE
  <2> DEFINE r == CallOn(pc, f, "ioctl", 0, 0, <<>>)
  <2>2. r.caller = "ioctl" /\ r.pc \in {"ioctl_done", "wild"}
    BY DEF CallOn
  <2>3. call' = [call EXCEPT ![t] = r] /\ lastSet' = lastSet
    BY <1>5, <2>1 DEF IOCTL_GET_NTH_BYTE, history
  <2> HIDE DEF r
  <2>4. ~plain => Progress(r, message', lastSet')
    BY <1>1, <1>2, <2>2, <2>3 DEF Progress
  <2> QED BY <1>1, <2>2, <2>3, <2>4, InsideIoctl
<1> QED BY <1>3, <1>4, <1>5

\* A get walks over the message to its terminator.
LEMMA GInvRead ==
  ASSUME CInv, GInv, NEW t \in Threads,
         ReadEof(t) \/ ReadTest(t) \/ ReadPut(t) \/ ReadReturn(t)
  PROVE  GInv'
<1>1. /\ call[t] \in Calls /\ call[t].ptr \in Nat /\ call[t].length \in Nat /\ BUF_LEN \in Nat
      /\ call \in [Threads -> Calls]
      /\ lastSet \in Seq(Bytes) /\ Len(lastSet) \in Nat
  BY CharAssumption DEF CInv, CallInv, RestInv, Calls
<1>2. UNCHANGED <<message, already_open, history, lastSet, plain>>
  BY DEF ReadEof, ReadTest, ReadPut, ReadReturn, history
<1>3. call[t].pc \in {"read_eof", "read_test", "read_put", "read_return"}
  BY DEF ReadEof, ReadTest, ReadPut, ReadReturn, At
<1>4. ASSUME InIoctl(t), ~plain
      PROVE  Progress(call[t], message, lastSet) /\ Match(message, lastSet)
  BY <1>3, <1>4 DEF GInv, Progress
<1>5. CASE ReadEof(t)
  <2>1. call[t].pc = "read_eof"
    BY <1>5 DEF ReadEof, At
  <2>2. CASE message[call[t].ptr] = NUL
    <3> DEFINE r == [[call[t] EXCEPT !.ptr = 0] EXCEPT !.pc = "read_return"]
    <3>1. call' = [call EXCEPT ![t] = r]
      BY <1>1, <1>5, <2>2 DEF ReadEof
    <3>2. r.caller = call[t].caller /\ r.pc = "read_return" /\ r.out = call[t].out
      BY <1>1 DEF Calls
    <3> HIDE DEF r
    <3>3. ASSUME InIoctl(t), ~plain PROVE Progress(r, message', lastSet')
      <4>1. call[t].ptr = 0 /\ call[t].out = <<>>
        BY <1>4, <2>1, <3>3 DEF Progress
      <4>2. Len(lastSet) = 0
        BY <1>1, <1>4, <2>2, <3>3, <4>1, FirstNul
      <4>3. lastSet = <<>>
        BY <1>1, <4>2
      <4> QED BY <1>2, <1>4, <3>2, <3>3, <4>1, <4>3 DEF Progress
    <3> QED BY <1>2, <2>1, <3>1, <3>2, <3>3, InsideIoctl, OutsideIoctl DEF InIoctl
  <2>3. CASE message[call[t].ptr] # NUL
    <3> DEFINE r == [call[t] EXCEPT !.pc = "read_test"]
    <3>1. call' = [call EXCEPT ![t] = r]
      BY <1>1, <1>5, <2>3 DEF ReadEof, Goto
    <3>2. /\ r.caller = call[t].caller /\ r.pc = "read_test" /\ r.out = call[t].out
          /\ r.ptr = call[t].ptr /\ r.length = call[t].length
      BY <1>1 DEF Calls
    <3> HIDE DEF r
    <3>3. ASSUME InIoctl(t), ~plain PROVE Progress(r, message', lastSet')
      <4>1. r.ptr = 0 /\ r.out = <<>> /\ r.length > BUF_LEN
        BY <1>4, <2>1, <3>2, <3>3 DEF Progress
      <4>2. SubSeq(lastSet, 1, 0) = <<>>
        BY <1>1
      <4>3. r.ptr <= Len(lastSet) /\ r.length + r.ptr > BUF_LEN
        BY <1>1, <3>2, <4>1
      <4> QED BY <1>2, <1>4, <3>2, <3>3, <4>1, <4>2, <4>3 DEF Progress
    <3> QED BY <1>2, <2>1, <3>1, <3>2, <3>3, InsideIoctl, OutsideIoctl DEF InIoctl
  <2> QED BY <2>2, <2>3
<1>6. CASE ReadTest(t)
  <2>1. call[t].pc = "read_test"
    BY <1>6 DEF ReadTest, At
  <2> DEFINE p == IF call[t].length > 0 /\ message[call[t].ptr] # NUL
                  THEN "read_put" ELSE "read_return"
             r == [call[t] EXCEPT !.pc = p]
  <2>2. call' = [call EXCEPT ![t] = r]
    BY <1>1, <1>6 DEF ReadTest, Goto
  <2>3. /\ r.caller = call[t].caller /\ r.pc = p /\ r.out = call[t].out
        /\ r.ptr = call[t].ptr /\ r.length = call[t].length
    BY <1>1 DEF Calls
  <2> HIDE DEF r
  <2>4. ASSUME InIoctl(t), ~plain PROVE Progress(r, message', lastSet')
    <3>1. /\ call[t].ptr <= Len(lastSet) /\ call[t].out = SubSeq(lastSet, 1, call[t].ptr)
          /\ call[t].length + call[t].ptr > BUF_LEN
      BY <1>4, <2>1, <2>4 DEF Progress
    <3>2. call[t].length > 0 /\ Len(lastSet) <= BUF_LEN
      BY <1>1, <1>4, <2>4, <3>1 DEF Match
    <3>3. message[call[t].ptr] = NUL <=> call[t].ptr = Len(lastSet)
      BY <1>1, <1>4, <2>4, <3>1, FirstNul
    <3>4. CASE message[call[t].ptr] = NUL
      <4>1. r.out = lastSet /\ r.pc = "read_return"
        BY <1>1, <2>3, <3>1, <3>3, <3>4
      <4> QED BY <1>2, <1>4, <2>4, <4>1 DEF Progress
    <3>5. CASE message[call[t].ptr] # NUL
      <4>1. r.ptr < Len(lastSet) /\ r.pc = "read_put"
        BY <1>1, <2>3, <3>1, <3>2, <3>3, <3>5
      <4> QED BY <1>2, <1>4, <2>3, <2>4, <3>1, <4>1 DEF Progress
    <3> QED BY <3>4, <3>5
  <2>5. r.pc \in {"read_put", "read_return"}
    BY <2>3
  <2> QED BY <1>2, <2>1, <2>2, <2>3, <2>4, <2>5, InsideIoctl, OutsideIoctl DEF InIoctl
<1>7. CASE ReadPut(t)
  <2>1. call[t].pc = "read_put"
    BY <1>7 DEF ReadPut, At
  <2> DEFINE o == IF call[t].caller = "ioctl" THEN Append(call[t].out, message[call[t].ptr])
                  ELSE call[t].out
             r == [[[[call[t] EXCEPT !.out = o] EXCEPT !.ptr = @ + 1] EXCEPT !.length = @ - 1]
                     EXCEPT !.pc = "read_test"]
  <2>2. call' = [call EXCEPT ![t] = r]
    BY <1>1, <1>7 DEF ReadPut
  <2>3. /\ r.caller = call[t].caller /\ r.pc = "read_test" /\ r.out = o
        /\ r.ptr = call[t].ptr + 1 /\ r.length = call[t].length - 1
    <3> HIDE DEF o
    <3> QED BY <1>1 DEF Calls
  <2> HIDE DEF r
  <2>4. ASSUME InIoctl(t), ~plain PROVE Progress(r, message', lastSet')
    <3>1. /\ call[t].ptr < Len(lastSet) /\ call[t].out = SubSeq(lastSet, 1, call[t].ptr)
          /\ call[t].length + call[t].ptr > BUF_LEN
      BY <1>4, <2>1, <2>4 DEF Progress
    <3>2. message[call[t].ptr] = lastSet[call[t].ptr + 1]
      <4>1. call[t].ptr <= Len(lastSet)
        BY <1>1, <3>1
      <4>2. Match(message, lastSet)
        BY <1>4, <2>4
      <4> QED BY <1>1, <3>1, <4>1, <4>2, FirstNul
    <3>3. Append(SubSeq(lastSet, 1, call[t].ptr), lastSet[call[t].ptr + 1])
            = SubSeq(lastSet, 1, call[t].ptr + 1)
      BY <1>1, <3>1
    <3>4. r.out = SubSeq(lastSet, 1, r.ptr)
      BY <2>3, <2>4, <3>1, <3>2, <3>3 DEF InIoctl
    <3>5. r.ptr <= Len(lastSet) /\ r.length + r.ptr > BUF_LEN
      BY <1>1, <2>3, <3>1
    <3> QED BY <1>2, <1>4, <2>3, <2>4, <3>4, <3>5 DEF Progress
  <2> QED BY <1>2, <2>1, <2>2, <2>3, <2>4, InsideIoctl, OutsideIoctl DEF InIoctl
<1>8. CASE ReadReturn(t)
  <2>1. call[t].pc = "read_return"
    BY <1>8 DEF ReadReturn, At
  <2>2. CASE InIoctl(t)
    <3> DEFINE r == [call[t] EXCEPT !.pc = "ioctl_got"]
    <3>1. call' = [call EXCEPT ![t] = r]
      BY <1>1, <1>8, <2>2 DEF ReadReturn, Goto, InIoctl
    <3>2. r.caller = "ioctl" /\ r.pc = "ioctl_got" /\ r.out = call[t].out
      BY <1>1, <2>2 DEF Calls, InIoctl
    <3> HIDE DEF r
    <3>3. ~plain => Progress(r, message', lastSet')
      BY <1>2, <1>4, <2>1, <2>2, <3>2 DEF Progress
    <3> QED BY <1>2, <2>2, <3>1, <3>2, <3>3, InsideIoctl
  <2>3. CASE ~InIoctl(t)
    BY <1>2, <1>8, <2>3, IdleIsOutside, OutsideIoctl DEF ReadReturn, Return, InIoctl
  <2> QED BY <2>2, <2>3
<1> QED BY <1>5, <1>6, <1>7, <1>8

\* A thread killed in an ioctl stays there, with the flag.
LEMMA GInvWild ==
  ASSUME CInv, GInv, NEW t \in Threads, WildLoad(t) \/ Killed(t)
  PROVE  GInv'
<1>1. /\ call[t].pc = "wild" /\ call[t] \in Calls /\ call \in [Threads -> Calls]
      /\ UNCHANGED <<message, already_open, history, lastSet, plain>>
  BY DEF WildLoad, Killed, At, CInv, CallInv, history
<1>2. ASSUME InIoctl(t), NEW r, r.pc \in {"ioctl_done", "killed"}, ~plain
      PROVE  Progress(r, message', lastSet')
  BY <1>1, <1>2 DEF GInv, Progress
<1>3. CASE WildLoad(t)
  <2>1. CASE InIoctl(t)
    <3> DEFINE r == [call[t] EXCEPT !.pc = "ioctl_done"]
    <3>1. call' = [call EXCEPT ![t] = r]
      BY <1>1, <1>3, <2>1 DEF WildLoad, Goto, InIoctl
    <3>2. r.caller = "ioctl" /\ r.pc = "ioctl_done"
      BY <1>1, <2>1 DEF Calls, InIoctl
    <3> HIDE DEF r
    <3>3. ~plain => Progress(r, message', lastSet')
      BY <1>2, <2>1, <3>2
    <3> QED BY <1>1, <2>1, <3>1, <3>2, <3>3, InsideIoctl
  <2>2. CASE ~InIoctl(t)
    BY <1>1, <1>3, <2>2, IdleIsOutside, OutsideIoctl DEF WildLoad, Return, InIoctl
  <2> QED BY <2>1, <2>2
<1>4. CASE Killed(t)
  <2>1. PICK f : call' = [call EXCEPT ![t] = CallOn("killed", f, call[t].caller, 0, 0, <<>>)]
    BY <1>4 DEF Killed
  <2> DEFINE r == CallOn("killed", f, call[t].caller, 0, 0, <<>>)
  <2>2. r.caller = call[t].caller /\ r.pc = "killed" /\ call' = [call EXCEPT ![t] = r]
    BY <2>1 DEF CallOn
  <2> HIDE DEF r
  <2>3. CASE InIoctl(t)
    <3>1. r.caller = "ioctl"
      BY <2>2, <2>3 DEF InIoctl
    <3>2. ~plain => Progress(r, message', lastSet')
      BY <1>2, <2>2, <2>3
    <3> QED BY <1>1, <2>2, <2>3, <3>1, <3>2, InsideIoctl
  <2>4. CASE ~InIoctl(t)
    BY <1>1, <2>2, <2>4, OutsideIoctl DEF InIoctl
  <2> QED BY <2>3, <2>4
<1> QED BY <1>3, <1>4

LEMMA GInvWrite ==
  ASSUME CInv, GInv, NEW t \in Threads,
         WriteByte(t) \/ WriteReturn(t) \/ IoctlGot(t) \/ ioctl_return(t)
  PROVE  GInv'
<1>1. /\ call[t] \in Calls /\ call[t].i \in 0 .. BUF_LEN /\ BUF_LEN \in Nat
      /\ call[t].src \in Seq(Chars) /\ Len(call[t].src) \in Nat
      /\ call \in [Threads -> Calls] /\ message \in [0 .. BUF_LEN -> Chars]
      /\ lastSet \in Seq(Bytes) /\ Len(lastSet) \in Nat
  BY CharAssumption DEF CInv, CallInv, MessageInv, RestInv, Calls
<1>2. UNCHANGED <<lastSet, plain>>
  BY DEF WriteByte, WriteReturn, IoctlGot, ioctl_return, history
<1>3. CASE WriteByte(t)
  <2>1. /\ call[t].pc = "write" /\ call[t].i < Len(call[t].src) /\ call[t].i < BUF_LEN
        /\ message' = [message EXCEPT ![call[t].i] = call[t].src[call[t].i + 1]]
        /\ already_open' = already_open
    BY <1>3 DEF WriteByte, WriteMore, At
  <2> DEFINE r == [call[t] EXCEPT !.i = @ + 1]
  <2>2. call' = [call EXCEPT ![t] = r]
    BY <1>1, <1>3 DEF WriteByte
  <2>3. /\ r.caller = call[t].caller /\ r.pc = "write"
        /\ r.src = call[t].src /\ r.i = call[t].i + 1
    BY <1>1, <2>1 DEF Calls
  <2> HIDE DEF r
  <2>4. CASE InIoctl(t)
    <3>1. ASSUME ~plain PROVE Progress(r, message', lastSet')
      <4>1. /\ Source(call[t].src, lastSet)
            /\ \A k \in 1 .. call[t].i : message[k - 1] = call[t].src[k]
        <5>1. Progress(call[t], message, lastSet)
          BY <2>4, <3>1 DEF GInv
        <5>2. call[t].src # <<>>
          BY <1>1, <2>1
        <5> QED BY <2>1, <5>1, <5>2 DEF Progress
      <4>2. ASSUME NEW k \in 1 .. r.i PROVE message'[k - 1] = r.src[k]
        <5>1. CASE k = r.i
          BY <1>1, <2>1, <2>3, <5>1
        <5>2. CASE k # r.i
          <6>1. k \in 1 .. call[t].i /\ k - 1 # call[t].i /\ k - 1 \in 0 .. BUF_LEN
            BY <1>1, <2>1, <2>3, <5>2
          <6> QED BY <1>1, <2>1, <2>3, <4>1, <6>1
        <5> QED BY <5>1, <5>2
      <4>3. r.i <= Len(r.src)
        BY <1>1, <2>1, <2>3
      <4> QED BY <1>2, <2>3, <4>1, <4>2, <4>3 DEF Progress
    <3> QED BY <1>2, <2>1, <2>2, <2>3, <2>4, <3>1, InsideIoctl DEF InIoctl
  <2>5. CASE ~InIoctl(t)
    <3>1. plain'
      BY <1>2, <2>1, <2>5 DEF GInv
    <3> QED BY <2>1, <2>2, <2>3, <2>5, <3>1, OutsideIoctl DEF InIoctl
  <2> QED BY <2>4, <2>5
<1>4. CASE WriteReturn(t)
  <2>1. /\ call[t].pc = "write" /\ UNCHANGED <<message, already_open, history>>
        /\ ~(call[t].i < Len(call[t].src) /\ call[t].i < BUF_LEN)
    BY <1>4 DEF WriteReturn, WriteMore, At
  <2>2. CASE InIoctl(t)
    <3> DEFINE r == [call[t] EXCEPT !.pc = "ioctl_done"]
    <3>1. call' = [call EXCEPT ![t] = r]
      BY <1>1, <1>4, <2>2 DEF WriteReturn, Goto, InIoctl
    <3>2. r.caller = "ioctl" /\ r.pc = "ioctl_done"
      BY <1>1, <2>2 DEF Calls, InIoctl
    <3> HIDE DEF r
    <3>3. ASSUME ~plain PROVE Match(message, lastSet)
      <4>1. Progress(call[t], message, lastSet)
        BY <2>2, <3>3 DEF GInv
      <4>2. CASE Match(message, lastSet)
        BY <4>2
      <4>3. CASE /\ Source(call[t].src, lastSet) /\ call[t].i <= Len(call[t].src)
                 /\ \A k \in 1 .. call[t].i : message[k - 1] = call[t].src[k]
        <5>1. Len(call[t].src) <= BUF_LEN
          BY <1>1, <4>3 DEF Source, MinOf
        <5>2. call[t].i = Len(call[t].src)
          BY <1>1, <2>1, <4>3, <5>1
        <5> QED BY <1>1, <4>3, <5>2, CopiedMatches DEF CInv
      <4> QED BY <2>1, <4>1, <4>2, <4>3 DEF Progress
    <3>4. ~plain => Progress(r, message', lastSet')
      BY <1>2, <2>1, <3>2, <3>3 DEF Progress
    <3> QED BY <1>2, <2>1, <2>2, <3>1, <3>2, <3>4, InsideIoctl
  <2>3. CASE ~InIoctl(t)
    BY <1>4, <2>1, <2>3, IdleIsOutside, OutsideIoctl DEF WriteReturn, Return, InIoctl
  <2> QED BY <2>2, <2>3
<1>5. CASE IoctlGot(t)
  <2>1. call[t].pc = "ioctl_got" /\ UNCHANGED <<message, already_open, history>>
    BY <1>5 DEF IoctlGot, At
  <2>2. InIoctl(t)
    BY <2>1 DEF GInv
  <2> DEFINE r == [call[t] EXCEPT !.pc = "ioctl_done"]
  <2>3. call' = [call EXCEPT ![t] = r]
    BY <1>1, <1>5 DEF IoctlGot, Goto
  <2>4. r.caller = "ioctl" /\ r.pc = "ioctl_done"
    BY <1>1, <2>2 DEF Calls, InIoctl
  <2> HIDE DEF r
  <2>5. ~plain => Progress(r, message', lastSet')
    BY <1>2, <2>1, <2>2, <2>4 DEF Progress, GInv
  <2> QED BY <1>2, <2>1, <2>2, <2>3, <2>4, <2>5, InsideIoctl
<1>6. CASE ioctl_return(t)
  <2>1. call[t].pc = "ioctl_done" /\ UNCHANGED <<message, history>>
    BY <1>6 DEF ioctl_return, At
  <2>2. InIoctl(t)
    BY <2>1 DEF GInv
  <2> QED BY <1>6, <2>1, <2>2, IdleIsOutside, OutsideIoctl DEF ioctl_return, Return
<1> QED BY <1>3, <1>4, <1>5, <1>6

LEMMA GInvStep == CInv /\ GInv /\ [Next]_vars => GInv'
<1> SUFFICES ASSUME CInv, GInv, [Next]_vars PROVE GInv'
  OBVIOUS
<1>1. CASE char_dev_init \/ Rmmod \/ char_dev_exit \/ FaultAfterUnload
  BY <1>1, GInvLifeCycle
<1>2. ASSUME NEW t \in Threads,
             \/ LookUp(t) \/ device_release(t)
             \/ device_read(t) \/ device_pread(t) \/ device_write(t)
             \/ IOCTL_SET_MSG(t) \/ IOCTL_GET_MSG(t) \/ IOCTL_GET_NTH_BYTE(t)
             \/ Inside(t)
      PROVE  GInv'
  BY <1>2, GInvOpen, GInvIoctl, GInvRead, GInvWild, GInvWrite DEF Inside
<1>3. CASE UNCHANGED vars
  BY <1>3 DEF vars, GInv, InIoctl, Progress, Match, Source
<1> QED BY <1>1, <1>2, <1>3 DEF Next

\* IOCTL_GET_MSG returns the whole of the last message set that was not "", and
\* nothing else, as long as write(2) has not been called: the flag keeps sets
\* and gets apart, and the byte after the buffer ends a message that fills it.
\* A set of "" copies nothing and so changes nothing.
THEOREM GetReturnsLast == Spec => []GetReturnsLastNonEmpty
<1>1. CInv /\ GInv => GetReturnsLastNonEmpty
  BY DEF GInv, Progress, GetReturnsLastNonEmpty
<1>2. Spec => []GInv
  BY CInvHolds, GInvInit, GInvStep, PTL DEF Spec
<1> QED BY <1>1, <1>2, CInvHolds, PTL
=============================================================================
