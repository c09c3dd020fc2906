------------------------------ MODULE SmallProofs ------------------------------
(***************************************************************************)
(* Proofs about the small modules, for any number of threads and files and *)
(* every size of the buffers.  Each module keeps an invariant of its own;  *)
(* a step of Small is a step of one module, and stutters in the others.    *)
(***************************************************************************)
EXTENDS Small, FiniteSetTheorems, TLAPS

-----------------------------------------------------------------------------
(***************************************************************************)
(* so2_cdev.c.                                                             *)
(***************************************************************************)

\* The threads whose open has passed dev_opend.
Openers == so_files \cup {t \in Three : so_pc[t] = "open_sleep"}

\* dev_opend stands for the one opener.  Without the module there is none, which
\* is what so2_cdev_init relies on when it clears dev_opend; and a file that is
\* being opened is not open, which is what so2_cdev_release relies on.
So2Inv ==
  /\ So2!TypeOK /\ So2!CopyInBounds
  /\ so_opend = 0 => Openers = {}
  /\ so_opend = 1 => \E t : Openers = {t}
  /\ \A t \in Three : so_pc[t] = "open_sleep" => t \notin so_files
  /\ so_cdev => so_mod = "live"
  /\ so_mod = "unloaded" => so_files = {} /\ \A t \in Three : so_pc[t] = "user"

So2Pcs == {"user", "open_sleep", "copy", "pcopy", "down_test", "down_sleep", "up_wake"}

\* What is asked for is never exceeded, and within the message a request is cut to
\* what is left of it: there the subtraction in size_t does not wrap.
LEMMA LimitedFits ==
  ASSUME NEW req \in 0 .. MaxReq, NEW pos \in 0 .. MaxPos
  PROVE  /\ So2!Limited(req, pos) \in 0 .. MaxReq
         /\ pos <= SIZE => pos + So2!Limited(req, pos) <= SIZE
<1>1. SIZE \in Nat /\ WORD \in Nat /\ SIZE < WORD /\ MaxReq \in Nat /\ MaxPos \in Nat
  BY SmallAssumption DEF So2!ConstantsOK
<1> DEFINE rest == (SIZE - pos) % WORD
<1>2. rest \in Nat
  BY <1>1
<1>3. ASSUME pos <= SIZE PROVE rest = SIZE - pos
  <2>1. SIZE - pos \in 0 .. WORD - 1
    BY <1>1, <1>3
  <2> QED BY <1>1, <2>1
<1>4. So2!Limited(req, pos) = IF req < rest THEN req ELSE rest
  BY DEF So2!Limited
<1> HIDE DEF rest
<1> QED BY <1>1, <1>2, <1>3, <1>4

LEMMA So2InvInit == So2!Init => So2Inv
<1> SUFFICES ASSUME So2!Init PROVE So2Inv
  OBVIOUS
<1>1. SIZE \in Nat /\ 0 \in 0 .. SIZE /\ 0 \in 0 .. MaxReq /\ 0 \in 0 .. MaxPos
  BY SmallAssumption DEF So2!ConstantsOK
<1>2. Openers = {}
  BY DEF So2!Init, Openers
<1>3. So2!TypeOK
  BY <1>1 DEF So2!Init, So2!TypeOK
<1>4. So2!CopyInBounds
  BY <1>1 DEF So2!Init, So2!CopyInBounds
<1> QED BY <1>2, <1>3, <1>4 DEF So2!Init, So2Inv

\* A step that neither opens nor closes a file.
LEMMA So2Quiet ==
  ASSUME So2Inv, So2!TypeOK', So2!CopyInBounds',
         UNCHANGED <<so_mod, so_cdev, so_opend, so_files>>,
         so_files # {} \/ so_mod = "live",
         \A t \in Three : so_pc'[t] = "open_sleep" <=> so_pc[t] = "open_sleep"
  PROVE  So2Inv'
<1>1. Openers' = Openers
  BY DEF Openers
<1>2. so_mod = "live"
  BY DEF So2Inv, So2!TypeOK
<1> QED BY <1>1, <1>2 DEF So2Inv

LEMMA So2InvStep == So2Inv /\ [So2!Next]_so => So2Inv'
<1> SUFFICES ASSUME So2Inv, [So2!Next]_so PROVE So2Inv'
  OBVIOUS
<1> USE DEF So2!loading, So2!At
<1>1. /\ So2!TypeOK /\ So2!CopyInBounds /\ SIZE \in Nat /\ 0 \in 0 .. SIZE
      /\ MaxReq \in Nat /\ MaxPos \in Nat /\ SIZE <= MaxPos
      /\ 0 \in 0 .. MaxReq /\ 0 \in 0 .. MaxPos
      /\ None \notin Three
  BY SmallAssumption DEF So2Inv, So2!ConstantsOK
<1>2. CASE So2!OtherLoads \/ So2!OtherUnloads
  <2>1. /\ UNCHANGED <<so_mod, so_cdev, so_oops, so_opend, so_flag, so_files, so_fpos, so_pc, so_file,
                      so_offset, so_size>>
        /\ so_region' \in {"none", "so2", "other"}
    BY <1>2 DEF So2!OtherLoads, So2!OtherUnloads
  <2> QED BY <2>1 DEF So2Inv, So2!TypeOK, So2!CopyInBounds, Openers
<1>3. CASE So2!so2_cdev_init
  <2>1. /\ so_mod = "unloaded" /\ so_mod' = "live" /\ so_opend' = 0 /\ so_flag' = 0
        /\ UNCHANGED <<so_oops, so_files, so_fpos, so_pc, so_file, so_offset, so_size>>
        /\ so_region' \in {"none", "so2", "other"} /\ so_cdev' \in BOOLEAN
    BY <1>1, <1>3 DEF So2!so2_cdev_init, So2!TypeOK
  <2>2. Openers' = {}
    BY <2>1 DEF So2Inv, Openers
  <2> QED BY <2>1, <2>2 DEF So2Inv, So2!TypeOK, So2!CopyInBounds
<1>4. CASE So2!so2_cdev_exit
  <2>1. UNCHANGED <<so_oops, so_opend, so_files, so_pc, so_flag, so_fpos, so_file, so_offset, so_size>>
    BY <1>4 DEF So2!so2_cdev_exit
  <2>2. Openers' = Openers
    BY <2>1 DEF Openers
  <2> QED BY <1>4, <2>1, <2>2 DEF So2!so2_cdev_exit, So2Inv, So2!TypeOK, So2!CopyInBounds
<1>5. CASE So2!so2_cdev_release
  <2>1. PICK f \in so_files :
          so_files' = so_files \ {f} /\ so_fpos' = [so_fpos EXCEPT ![f] = 0]
    BY <1>5 DEF So2!so2_cdev_release
  <2>2. /\ so_opend' = 0
        /\ UNCHANGED <<so_region, so_mod, so_cdev, so_oops, so_flag, so_pc, so_file, so_offset, so_size>>
    BY <1>5 DEF So2!so2_cdev_release
  <2>3. Openers = {f}
    BY <1>1, <2>1 DEF So2Inv, Openers, So2!TypeOK
  <2>4. Openers' = {}
    BY <2>1, <2>2, <2>3 DEF So2Inv, Openers
  <2> QED BY <1>1, <2>1, <2>2, <2>4 DEF So2Inv, So2!TypeOK, So2!CopyInBounds
<1>6. ASSUME NEW t \in Three, So2!so2_cdev_open(t) PROVE So2Inv'
  <2>1. /\ so_cdev /\ so_pc[t] = "user" /\ t \notin so_files /\ so_opend = 0 /\ so_opend' = 1
        /\ so_pc' = [so_pc EXCEPT ![t] = "open_sleep"]
        /\ UNCHANGED <<so_region, so_mod, so_cdev, so_oops, so_flag, so_files, so_fpos, so_file,
                       so_offset, so_size>>
    BY <1>6 DEF So2!so2_cdev_open, So2!Goto
  <2>2. Openers' = {t}
    BY <1>1, <2>1 DEF So2Inv, Openers, So2!TypeOK
  <2>3. So2!TypeOK' /\ So2!CopyInBounds'
    BY <1>1, <2>1 DEF So2!TypeOK, So2!CopyInBounds
  <2> QED BY <1>1, <2>1, <2>2, <2>3 DEF So2Inv, So2!TypeOK
<1>7. ASSUME NEW t \in Three, So2!OpenReturn(t) PROVE So2Inv'
  <2>1. /\ so_pc[t] = "open_sleep" /\ so_files' = so_files \cup {t}
        /\ so_pc' = [so_pc EXCEPT ![t] = "user"]
        /\ UNCHANGED <<so_region, so_mod, so_cdev, so_oops, so_opend, so_flag, so_fpos, so_file,
                       so_offset, so_size>>
    BY <1>7 DEF So2!OpenReturn, So2!Goto
  <2>2. Openers' = Openers
    BY <1>1, <2>1 DEF Openers, So2!TypeOK
  <2>3. So2!TypeOK' /\ So2!CopyInBounds'
    BY <1>1, <2>1 DEF So2!TypeOK, So2!CopyInBounds
  <2> QED BY <1>1, <2>1, <2>2, <2>3 DEF So2Inv, So2!TypeOK
<1>8. ASSUME NEW t \in Three, So2!so2_cdev_read(t) \/ So2!so2_cdev_pread(t) PROVE So2Inv'
  <2>1. PICK f \in so_files, req \in 0 .. MaxReq, pos \in 0 .. MaxPos, label \in {"copy", "pcopy"} :
          /\ label = "copy" => pos <= SIZE
          /\ so_size' = [so_size EXCEPT ![t] = So2!Limited(req, pos)]
          /\ so_offset' = [so_offset EXCEPT ![t] = pos]
          /\ so_pc' = [so_pc EXCEPT ![t] = label] /\ so_file' = [so_file EXCEPT ![t] = f]
    <3>1. CASE So2!so2_cdev_read(t)
      <4>1. PICK f \in so_files, req \in 0 .. MaxReq :
              /\ so_size' = [so_size EXCEPT ![t] = So2!Limited(req, so_fpos[f])]
              /\ so_offset' = [so_offset EXCEPT ![t] = so_fpos[f]]
              /\ so_pc' = [so_pc EXCEPT ![t] = "copy"] /\ so_file' = [so_file EXCEPT ![t] = f]
        BY <3>1 DEF So2!so2_cdev_read, So2!Use, So2!Goto
      <4>2. so_fpos[f] \in 0 .. MaxPos /\ so_fpos[f] <= SIZE
        BY <1>1 DEF So2!TypeOK
      <4> QED BY <4>1, <4>2
    <3>2. CASE So2!so2_cdev_pread(t)
      BY <3>2 DEF So2!so2_cdev_pread, So2!Use, So2!Goto
    <3> QED BY <1>8, <3>1, <3>2
  <2>2. /\ so_pc[t] = "user"
        /\ UNCHANGED <<so_region, so_mod, so_cdev, so_oops, so_opend, so_flag, so_files, so_fpos>>
    BY <1>8 DEF So2!so2_cdev_read, So2!so2_cdev_pread
  <2>3. f \in Three
    BY <1>1 DEF So2!TypeOK
  <2> DEFINE n == So2!Limited(req, pos)
  <2>4. n \in 0 .. MaxReq /\ (pos <= SIZE => pos + n <= SIZE)
    BY LimitedFits
  <2>5. so_size' = [so_size EXCEPT ![t] = n]
    BY <2>1
  <2> HIDE DEF n
  <2>6. So2!TypeOK'
    BY <1>1, <2>1, <2>2, <2>3, <2>4, <2>5 DEF So2!TypeOK
  <2>7. So2!CopyInBounds'
    BY <1>1, <2>1, <2>4, <2>5 DEF So2!TypeOK, So2!CopyInBounds
  <2> QED BY <1>1, <2>1, <2>2, <2>6, <2>7, So2Quiet DEF So2!TypeOK
<1>9. ASSUME NEW t \in Three, So2!CopyReturn(t) \/ So2!PcopyReturn(t) PROVE So2Inv'
  <2>1. /\ so_pc[t] \in {"copy", "pcopy"}
        /\ \/ /\ so_pc[t] = "copy"
              /\ so_fpos' = [so_fpos EXCEPT ![so_file[t]] = so_offset[t] + so_size[t]]
           \/ so_fpos' = so_fpos
        /\ so_offset' = [so_offset EXCEPT ![t] = 0] /\ so_size' = [so_size EXCEPT ![t] = 0]
        /\ so_pc' = [so_pc EXCEPT ![t] = "user"] /\ so_file' = [so_file EXCEPT ![t] = None]
        /\ UNCHANGED <<so_region, so_mod, so_cdev, so_oops, so_opend, so_flag, so_files>>
    BY <1>9 DEF So2!CopyReturn, So2!PcopyReturn, So2!Returned, So2!Leave, So2!Goto
  <2>2. so_pc[t] = "copy" => so_offset[t] + so_size[t] \in 0 .. SIZE
    BY <1>1 DEF So2!TypeOK, So2!CopyInBounds
  <2>3. so_fpos' \in [Three -> 0 .. SIZE]
    BY <1>1, <2>1, <2>2 DEF So2!TypeOK
  <2>4. So2!TypeOK'
    BY <1>1, <2>1, <2>3 DEF So2!TypeOK
  <2>5. So2!CopyInBounds'
    BY <1>1, <2>1 DEF So2!TypeOK, So2!CopyInBounds
  <2>6. so_mod = "live"
    BY <1>1, <2>1 DEF So2Inv, So2!TypeOK
  <2> QED BY <1>1, <2>1, <2>4, <2>5, <2>6, So2Quiet DEF So2!TypeOK
<1>10. ASSUME NEW t \in Three,
              \/ So2!MY_IOCTL_DOWN(t) \/ So2!DownTest(t) \/ So2!DownSignal(t)
              \/ So2!MY_IOCTL_UP(t) \/ So2!wake_up_interruptible(t)
       PROVE  So2Inv'
  <2>1. /\ UNCHANGED <<so_region, so_mod, so_cdev, so_oops, so_opend, so_files, so_fpos, so_offset,
                       so_size>>
        /\ so_flag' \in {0, 1}
    BY <1>1, <1>10 DEF So2!MY_IOCTL_DOWN, So2!DownTest, So2!DownSignal, So2!MY_IOCTL_UP,
                       So2!wake_up_interruptible, So2!TypeOK
  <2>2. /\ so_file' \in [Three -> Three \cup {None}]
        /\ so_pc' \in [Three -> So2Pcs]
        /\ \A u \in Three : /\ so_pc'[u] = "open_sleep" <=> so_pc[u] = "open_sleep"
                            /\ so_pc'[u] = "copy" => so_pc[u] = "copy"
    BY <1>1, <1>10 DEF So2!MY_IOCTL_DOWN, So2!DownTest, So2!DownSignal, So2!MY_IOCTL_UP,
                       So2!wake_up_interruptible, So2!Use, So2!Leave, So2!Goto, So2!TypeOK, So2Pcs
  <2>3. so_files # {} \/ so_mod = "live"
    BY <1>1, <1>10 DEF So2!MY_IOCTL_DOWN, So2!DownTest, So2!DownSignal, So2!MY_IOCTL_UP,
                       So2!wake_up_interruptible, So2Inv, So2!TypeOK
  <2>4. So2!TypeOK'
    BY <1>1, <2>1, <2>2 DEF So2!TypeOK, So2Pcs
  <2>5. So2!CopyInBounds'
    BY <1>1, <2>1, <2>2 DEF So2!CopyInBounds
  <2> QED BY <2>1, <2>2, <2>3, <2>4, <2>5, So2Quiet
<1>11. ASSUME NEW t \in Three, So2!Stray(t) PROVE So2Inv'
  BY <1>11 DEF So2!Stray, So2Inv, So2!TypeOK, So2!CopyInBounds, Openers
<1>12. CASE UNCHANGED so
  BY <1>12 DEF so, So2Inv, So2!TypeOK, So2!CopyInBounds, Openers
<1> QED BY <1>2, <1>3, <1>4, <1>5, <1>6, <1>7, <1>8, <1>9, <1>10, <1>11, <1>12
           DEF So2!Next, So2!Inside

-----------------------------------------------------------------------------
(***************************************************************************)
(* char_dev_example.c.                                                     *)
(***************************************************************************)

\* The flag admits one user, from its open to its release, and msg is what that
\* user's open formatted.
ExampleInv ==
  /\ Example!TypeOK /\ Example!ReadsOwnMessage
  /\ \A u \in Three : ex_pc[u] # "closed" =>
       ex_open /\ \A v \in Three : ex_pc[v] # "closed" => v = u
  /\ \A u \in Three : ex_pc[u] = "open" => ex_told[u] = ex_msg
  /\ \A u \in Three : ex_pc[u] # "open" => ex_got[u] = None

LEMMA ExampleInvInit == Example!Init => ExampleInv
<1> SUFFICES ASSUME Example!Init PROVE ExampleInv
  OBVIOUS
<1>1. 0 \in 0 .. TextLen /\ 0 \in 0 .. MaxOpens
  BY SmallAssumption DEF Example!ConstantsOK
<1>2. Example!TypeOK
  BY <1>1 DEF Example!Init, Example!TypeOK
<1> QED BY <1>2 DEF Example!Init, ExampleInv, Example!ReadsOwnMessage

LEMMA ExampleInvStep == ExampleInv /\ [Example!Next]_ex => ExampleInv'
<1> SUFFICES ASSUME ExampleInv, [Example!Next]_ex PROVE ExampleInv'
  OBVIOUS
<1>1. /\ Example!TypeOK /\ TextLen \in Nat /\ MaxOpens \in Nat
      /\ 0 \in 0 .. TextLen /\ 0 \in 0 .. MaxOpens
  BY SmallAssumption DEF ExampleInv, Example!ConstantsOK
<1>2. CASE Example!chardev_init
  <2>1. Example!TypeOK'
    BY <1>1, <1>2 DEF Example!chardev_init, Example!TypeOK
  <2> QED BY <1>2, <2>1 DEF Example!chardev_init, ExampleInv, Example!ReadsOwnMessage
<1>3. CASE Example!chardev_exit \/ Example!FaultAfterUnload
  BY <1>3 DEF Example!chardev_exit, Example!FaultAfterUnload, ExampleInv, Example!TypeOK,
              Example!ReadsOwnMessage
<1>4. ASSUME NEW u \in Three, Example!device_open(u) PROVE ExampleInv'
  <2>1. /\ ~ex_open /\ ex_open' = TRUE /\ ex_pc[u] = "closed"
        /\ ex_pc' = [ex_pc EXCEPT ![u] = "sprintf"]
        /\ UNCHANGED <<ex_counter, ex_msg, ex_mod, ex_oops, ex_fpos, ex_told, ex_got>>
    BY <1>4 DEF Example!device_open, Example!At, Example!Goto
  <2>2. Example!TypeOK'
    BY <1>1, <2>1 DEF Example!TypeOK
  <2> QED BY <1>1, <2>1, <2>2 DEF ExampleInv, Example!TypeOK, Example!ReadsOwnMessage
<1>5. ASSUME NEW u \in Three, Example!OpenSprintf(u) PROVE ExampleInv'
  <2>1. /\ ex_pc[u] = "sprintf" /\ ex_counter < MaxOpens
        /\ ex_msg' = ex_counter /\ ex_counter' = ex_counter + 1
        /\ ex_told' = [ex_told EXCEPT ![u] = ex_counter]
        /\ ex_fpos' = [ex_fpos EXCEPT ![u] = 0]
        /\ ex_pc' = [ex_pc EXCEPT ![u] = "open"]
        /\ UNCHANGED <<ex_open, ex_mod, ex_oops, ex_got>>
    BY <1>5 DEF Example!OpenSprintf, Example!At, Example!Goto
  <2>2. ex_counter + 1 \in 0 .. MaxOpens /\ ex_counter \in 0 .. MaxOpens
    BY <1>1, <2>1 DEF Example!TypeOK
  <2>3. Example!TypeOK'
    BY <1>1, <2>1, <2>2 DEF Example!TypeOK
  <2> QED BY <1>1, <2>1, <2>3 DEF ExampleInv, Example!TypeOK, Example!ReadsOwnMessage
<1>6. ASSUME NEW u \in Three, Example!device_read(u) PROVE ExampleInv'
  <2>1. /\ ex_pc[u] = "open"
        /\ UNCHANGED <<ex_open, ex_counter, ex_msg, ex_mod, ex_oops, ex_pc, ex_told>>
    BY <1>6 DEF Example!device_read, Example!At
  <2>2. /\ ex_fpos' \in [Three -> 0 .. TextLen]
        /\ ex_got' = ex_got \/ ex_got' = [ex_got EXCEPT ![u] = ex_msg]
    <3>1. CASE ex_fpos' = [ex_fpos EXCEPT ![u] = 0] /\ ex_got' = ex_got
      BY <1>1, <3>1 DEF Example!TypeOK
    <3>2. ASSUME NEW n \in 1 .. TextLen - ex_fpos[u],
                 ex_fpos' = [ex_fpos EXCEPT ![u] = @ + n],
                 ex_got' = [ex_got EXCEPT ![u] = ex_msg]
          PROVE  ex_fpos' \in [Three -> 0 .. TextLen]
      <4>1. ex_fpos[u] + n \in 0 .. TextLen
        BY <1>1 DEF Example!TypeOK
      <4> QED BY <1>1, <3>2, <4>1 DEF Example!TypeOK
    <3> QED BY <1>6, <3>1, <3>2 DEF Example!device_read, Example!Copied
  <2>3. Example!TypeOK'
    BY <1>1, <2>1, <2>2 DEF Example!TypeOK
  <2>4. Example!ReadsOwnMessage'
    BY <1>1, <2>1, <2>2 DEF ExampleInv, Example!TypeOK, Example!ReadsOwnMessage
  <2> QED BY <1>1, <2>1, <2>2, <2>3, <2>4 DEF ExampleInv, Example!TypeOK
<1>7. ASSUME NEW u \in Three, Example!device_release(u) PROVE ExampleInv'
  <2>1. /\ ex_pc[u] = "open" /\ ex_open' = FALSE
        /\ ex_pc' = [ex_pc EXCEPT ![u] = "closed"]
        /\ ex_told' = [ex_told EXCEPT ![u] = None] /\ ex_got' = [ex_got EXCEPT ![u] = None]
        /\ UNCHANGED <<ex_counter, ex_msg, ex_mod, ex_oops, ex_fpos>>
    BY <1>7 DEF Example!device_release, Example!At, Example!Goto
  <2>2. Example!TypeOK'
    BY <1>1, <2>1 DEF Example!TypeOK
  <2>3. \A v \in Three : ex_pc'[v] = "closed"
    BY <1>1, <2>1 DEF ExampleInv, Example!TypeOK
  <2> QED BY <1>1, <2>1, <2>2, <2>3 DEF ExampleInv, Example!TypeOK, Example!ReadsOwnMessage
<1>8. CASE UNCHANGED ex
  BY <1>8 DEF ex, ExampleInv, Example!TypeOK, Example!ReadsOwnMessage
<1>9. ASSUME NEW u \in Three, Example!device_pread(u) PROVE ExampleInv'
  <2>1. /\ ex_pc[u] = "open" /\ ex_got' = [ex_got EXCEPT ![u] = ex_msg]
        /\ UNCHANGED <<ex_open, ex_counter, ex_msg, ex_mod, ex_oops, ex_pc, ex_fpos, ex_told>>
    BY <1>9 DEF Example!device_pread, Example!At
  <2>2. Example!TypeOK'
    BY <1>1, <2>1 DEF Example!TypeOK
  <2> QED BY <1>1, <2>1, <2>2 DEF ExampleInv, Example!TypeOK, Example!ReadsOwnMessage
<1> QED BY <1>2, <1>3, <1>4, <1>5, <1>6, <1>7, <1>8, <1>9 DEF Example!Next

-----------------------------------------------------------------------------
(***************************************************************************)
(* ioctl.c.                                                                *)
(***************************************************************************)

\* A call has an open file; a read copies the value it took; a module that is
\* not live has no open file.
IoctlInv ==
  /\ Ioctl!TypeOK /\ io_out \in [Two -> SUBSET (Nat \cup {None})]
  /\ \A t \in Two : io_pc[t] # "user" => io_file[t] \in Files /\ io_data[io_file[t]] # None
  /\ \A t \in Two : io_pc[t] = "set" => io_val[t] \in Nat
  /\ \A t \in Two : io_out[t] \subseteq {io_val[t]}
  /\ \A t \in Two : io_pc[t] # "copy" => io_out[t] = {}
  /\ io_mod = "unloaded" => io_held = {}
  /\ io_mod = "loading" => io_held = {"region"}
  /\ io_mod # "live" => \A f \in Files : io_data[f] = None

LEMMA IoctlInvInit == Ioctl!Init => IoctlInv
<1> SUFFICES ASSUME Ioctl!Init PROVE IoctlInv
  OBVIOUS
<1>1. 0 \in 0 .. MaxRead
  BY SmallAssumption DEF Ioctl!ConstantsOK
<1>2. Ioctl!TypeOK
  BY <1>1 DEF Ioctl!Init, Ioctl!TypeOK
<1> QED BY <1>2 DEF Ioctl!Init, IoctlInv

\* A thread returns to the user.
LEMMA IoctlLeave ==
  ASSUME IoctlInv, NEW t \in Two, Ioctl!Leave(t), io_data' = io_data,
         UNCHANGED <<io_mod, io_held>>
  PROVE  IoctlInv'
<1>1. /\ 0 \in 0 .. MaxRead /\ Ioctl!TypeOK
      /\ io_out \in [Two -> SUBSET (Nat \cup {None})]
  BY SmallAssumption DEF Ioctl!ConstantsOK, IoctlInv
<1>2. /\ io_pc' = [io_pc EXCEPT ![t] = "user"]
      /\ io_file' = [io_file EXCEPT ![t] = None] /\ io_val' = [io_val EXCEPT ![t] = None]
      /\ io_count' = [io_count EXCEPT ![t] = 0] /\ io_out' = [io_out EXCEPT ![t] = {}]
  BY DEF Ioctl!Leave, Ioctl!Goto
<1>3. Ioctl!TypeOK'
  BY <1>1, <1>2 DEF Ioctl!TypeOK
<1> QED BY <1>1, <1>2, <1>3 DEF IoctlInv, Ioctl!TypeOK

LEMMA IoctlInvStep == IoctlInv /\ [Ioctl!Next]_io => IoctlInv'
<1> SUFFICES ASSUME IoctlInv, [Ioctl!Next]_io PROVE IoctlInv'
  OBVIOUS
<1>1. /\ Ioctl!TypeOK /\ BYTE \in Nat \ {0} /\ Vals \subseteq Nat /\ MaxRead \in Nat
      /\ None \notin Nat /\ io_out \in [Two -> SUBSET (Nat \cup {None})]
  BY SmallAssumption DEF IoctlInv, Ioctl!ConstantsOK
<1>2. CASE Ioctl!ioctl_init
  BY <1>2 DEF Ioctl!ioctl_init, IoctlInv, Ioctl!TypeOK
<1>3. CASE Ioctl!InitCdev
  BY <1>3 DEF Ioctl!InitCdev, Ioctl!Undone, IoctlInv, Ioctl!TypeOK
<1>4. CASE Ioctl!ioctl_exit
  BY <1>4 DEF Ioctl!ioctl_exit, IoctlInv, Ioctl!TypeOK
<1>5. CASE Ioctl!test_ioctl_open
  <2>1. PICK f \in Files : io_data' = [io_data EXCEPT ![f] = BYTE - 1]
    BY <1>5 DEF Ioctl!test_ioctl_open
  <2>2. BYTE - 1 \in 0 .. BYTE - 1 /\ BYTE - 1 # None
    BY <1>1
  <2> QED BY <1>5, <2>1, <2>2 DEF Ioctl!test_ioctl_open, IoctlInv, Ioctl!TypeOK
<1>6. CASE Ioctl!test_ioctl_close
  BY <1>6 DEF Ioctl!test_ioctl_close, IoctlInv, Ioctl!TypeOK
<1>7. ASSUME NEW t \in Two, Ioctl!IOCTL_VALSET(t) PROVE IoctlInv'
  <2>1. PICK f \in Files, v \in Vals :
          /\ io_data[f] # None
          /\ io_file' = [io_file EXCEPT ![t] = f] /\ io_val' = [io_val EXCEPT ![t] = v]
    BY <1>7 DEF Ioctl!IOCTL_VALSET
  <2>2. /\ io_pc[t] = "user" /\ io_pc' = [io_pc EXCEPT ![t] = "set"]
        /\ UNCHANGED <<io_mod, io_held, io_data, io_count, io_out>>
    BY <1>7 DEF Ioctl!IOCTL_VALSET, Ioctl!Goto
  <2>3. Ioctl!TypeOK'
    BY <1>1, <2>1, <2>2 DEF Ioctl!TypeOK
  <2> QED BY <1>1, <2>1, <2>2, <2>3 DEF IoctlInv, Ioctl!TypeOK
<1>8. ASSUME NEW t \in Two, Ioctl!SetStore(t) PROVE IoctlInv'
  <2>1. /\ io_pc[t] = "set" /\ Ioctl!Leave(t) /\ UNCHANGED <<io_mod, io_held>>
        /\ io_data' = [io_data EXCEPT ![io_file[t]] = io_val[t] % BYTE]
    BY <1>8 DEF Ioctl!SetStore, Ioctl!Stored
  <2>2. io_val[t] % BYTE \in 0 .. BYTE - 1 /\ io_val[t] % BYTE # None
    BY <1>1, <2>1 DEF IoctlInv
  <2>3. /\ io_data' \in [Files -> 0 .. BYTE - 1 \cup {None}]
        /\ \A f \in Files : io_data'[f] = None <=> io_data[f] = None
    BY <1>1, <2>1, <2>2 DEF IoctlInv, Ioctl!TypeOK
  <2>4. /\ io_pc' = [io_pc EXCEPT ![t] = "user"]
        /\ io_file' = [io_file EXCEPT ![t] = None] /\ io_val' = [io_val EXCEPT ![t] = None]
        /\ io_count' = [io_count EXCEPT ![t] = 0] /\ io_out' = [io_out EXCEPT ![t] = {}]
    BY <2>1 DEF Ioctl!Leave, Ioctl!Goto
  <2>5. Ioctl!TypeOK'
    BY <1>1, <2>1, <2>3, <2>4 DEF Ioctl!TypeOK
  <2> QED BY <1>1, <2>1, <2>3, <2>4, <2>5 DEF IoctlInv, Ioctl!TypeOK
<1>9. ASSUME NEW t \in Two, Ioctl!test_ioctl_read(t) PROVE IoctlInv'
  <2>1. PICK f \in Files, n \in 1 .. MaxRead :
          /\ io_data[f] # None
          /\ io_file' = [io_file EXCEPT ![t] = f]
          /\ io_val' = [io_val EXCEPT ![t] = io_data[f]]
          /\ io_count' = [io_count EXCEPT ![t] = n]
    BY <1>9 DEF Ioctl!test_ioctl_read
  <2>2. /\ io_pc[t] = "user" /\ io_pc' = [io_pc EXCEPT ![t] = "copy"]
        /\ UNCHANGED <<io_mod, io_held, io_data, io_out>>
    BY <1>9 DEF Ioctl!test_ioctl_read, Ioctl!Goto
  <2>3. io_data[f] \in Nat /\ n \in 0 .. MaxRead
    BY <1>1, <2>1 DEF Ioctl!TypeOK
  <2>4. Ioctl!TypeOK'
    BY <1>1, <2>1, <2>2, <2>3 DEF Ioctl!TypeOK
  <2> QED BY <1>1, <2>1, <2>2, <2>4 DEF IoctlInv, Ioctl!TypeOK
<1>10. ASSUME NEW t \in Two, Ioctl!CopyByte(t) PROVE IoctlInv'
  <2>1. io_pc[t] = "copy" /\ UNCHANGED <<io_mod, io_held, io_data>>
    BY <1>10 DEF Ioctl!CopyByte
  <2>2. CASE Ioctl!Leave(t)
    BY <2>1, <2>2, IoctlLeave
  <2>3. CASE /\ io_count[t] > 0
             /\ io_out' = [io_out EXCEPT ![t] = @ \cup {io_val[t]}]
             /\ io_count' = [io_count EXCEPT ![t] = @ - 1]
             /\ UNCHANGED <<io_pc, io_file, io_val>>
    <3>1. io_count[t] - 1 \in 0 .. MaxRead
      BY <1>1, <2>3 DEF Ioctl!TypeOK
    <3>2. \A u \in Two : io_out'[u] \subseteq {io_val[u]}
      BY <1>1, <2>3 DEF IoctlInv, Ioctl!TypeOK
    <3>3. Ioctl!TypeOK'
      BY <1>1, <2>1, <2>3, <3>1, <3>2 DEF Ioctl!TypeOK
    <3> QED BY <1>1, <2>1, <2>3, <3>2, <3>3 DEF IoctlInv, Ioctl!TypeOK
  <2> QED BY <1>10, <2>2, <2>3 DEF Ioctl!CopyByte, Ioctl!Copied
<1>11. CASE UNCHANGED io
  BY <1>11 DEF io, IoctlInv, Ioctl!TypeOK
<1> QED BY <1>2, <1>3, <1>4, <1>5, <1>6, <1>7, <1>8, <1>9, <1>10, <1>11 DEF Ioctl!Next

-----------------------------------------------------------------------------
(***************************************************************************)
(* procfs_2.c and procfs_3.c.                                              *)
(***************************************************************************)

Cut(n) == IF n < PROCFS_MAX_SIZE THEN n ELSE PROCFS_MAX_SIZE - 1

\* Two writers at a time are both marked; the shared size is that of a writer
\* that is not marked; there is no writer without the module.
Proc2Inv ==
  /\ Proc2!TypeOK
  /\ \A t, u \in Three : p2_pc[t] # "user" /\ p2_pc[u] # "user" /\ t # u => t \in p2_overlap
  /\ \A t \in Three \ p2_overlap :
       /\ p2_pc[t] = "limit" => p2_size = p2_length[t]
       /\ p2_pc[t] \in {"copy", "end"} => p2_size = Cut(p2_length[t])
  /\ p2_mod = "unloaded" => \A t \in Three : p2_pc[t] = "user"

LEMMA Proc2InvInit == Proc2!Init => Proc2Inv
BY DEF Proc2!Init, Proc2Inv, Proc2!TypeOK

\* A writer that changes the shared size is the only one, or all are marked.
LEMMA Proc2InvStep == Proc2Inv /\ [Proc2!Next]_p2 => Proc2Inv'
<1> SUFFICES ASSUME Proc2Inv, [Proc2!Next]_p2 PROVE Proc2Inv'
  OBVIOUS
<1>1. Proc2!TypeOK /\ PROCFS_MAX_SIZE \in Nat \ {0} /\ MaxLen \in Nat
  BY SmallAssumption DEF Proc2Inv, Proc2!ConstantsOK
<1>2. CASE Proc2!procfs_2_init
  BY <1>2 DEF Proc2!procfs_2_init, Proc2Inv, Proc2!TypeOK
<1>3. CASE Proc2!procfs_2_exit
  BY <1>3 DEF Proc2!procfs_2_exit, Proc2!Writers, Proc2Inv, Proc2!TypeOK
<1>4. ASSUME NEW t \in Three, Proc2!procfile_write(t) PROVE Proc2Inv'
  <2>1. PICK n \in 0 .. MaxLen :
          p2_size' = n /\ p2_length' = [p2_length EXCEPT ![t] = n]
    BY <1>4 DEF Proc2!procfile_write
  <2>2. /\ p2_mod = "live" /\ p2_mod' = p2_mod /\ p2_pc[t] = "user"
        /\ p2_pc' = [p2_pc EXCEPT ![t] = "limit"]
        /\ p2_overlap' = IF Proc2!Writers = {} THEN p2_overlap
                         ELSE p2_overlap \cup Proc2!Writers \cup {t}
    BY <1>4 DEF Proc2!procfile_write, Proc2!Goto
  <2>3. Proc2!TypeOK'
    BY <1>1, <2>1, <2>2 DEF Proc2!TypeOK, Proc2!Writers
  <2>4. \A u \in Three : p2_pc[u] # "user" => u \in p2_overlap' /\ t \in p2_overlap'
    BY <2>2 DEF Proc2!Writers
  <2> QED BY <1>1, <2>1, <2>2, <2>3, <2>4 DEF Proc2Inv, Proc2!TypeOK
<1>5. ASSUME NEW t \in Three, Proc2!WriteLimit(t) PROVE Proc2Inv'
  <2>1. /\ p2_pc[t] = "limit" /\ p2_pc' = [p2_pc EXCEPT ![t] = "copy"]
        /\ p2_size' = Cut(p2_size)
        /\ UNCHANGED <<p2_mod, p2_length, p2_overlap>>
    BY <1>1, <1>5 DEF Proc2!WriteLimit, Proc2!TooLong, Proc2!Goto, Proc2!TypeOK, Cut
  <2>2. Proc2!TypeOK'
    BY <1>1, <2>1 DEF Proc2!TypeOK, Cut
  <2>3. ASSUME NEW u \in Three \ p2_overlap, p2_pc'[u] # "user"
        PROVE  u = t
    BY <1>1, <2>1, <2>3 DEF Proc2Inv, Proc2!TypeOK
  <2> QED BY <1>1, <2>1, <2>2, <2>3 DEF Proc2Inv, Proc2!TypeOK
<1>6. ASSUME NEW t \in Three, Proc2!WriteCopy(t) \/ Proc2!WriteEnd(t) PROVE Proc2Inv'
  <2>1. p2_pc[t] \in {"copy", "end"} /\ UNCHANGED <<p2_mod, p2_size>>
    BY <1>6 DEF Proc2!WriteCopy, Proc2!WriteEnd
  <2>2. CASE /\ p2_pc' = [p2_pc EXCEPT ![t] = "user"]
             /\ p2_length' = [p2_length EXCEPT ![t] = 0]
             /\ p2_overlap' = p2_overlap \ {t}
    <3>1. Proc2!TypeOK'
      BY <1>1, <2>1, <2>2 DEF Proc2!TypeOK
    <3> QED BY <1>1, <2>1, <2>2, <3>1 DEF Proc2Inv, Proc2!TypeOK
  <2>3. CASE /\ p2_pc[t] = "copy" /\ p2_pc' = [p2_pc EXCEPT ![t] = "end"]
             /\ UNCHANGED <<p2_length, p2_overlap>>
    <3>1. Proc2!TypeOK'
      BY <1>1, <2>1, <2>3 DEF Proc2!TypeOK
    <3> QED BY <1>1, <2>1, <2>3, <3>1 DEF Proc2Inv, Proc2!TypeOK
  <2> QED BY <1>6, <2>2, <2>3 DEF Proc2!WriteCopy, Proc2!WriteEnd, Proc2!Leave, Proc2!Goto
<1>7. CASE UNCHANGED p2
  BY <1>7 DEF p2, Proc2Inv, Proc2!TypeOK
<1> QED BY <1>2, <1>3, <1>4, <1>5, <1>6, <1>7 DEF Proc2!Next

\* A file that is open while the module is live was opened, or another one was,
\* after the load: a reference is held, and no close gives it back.
Proc3Inv ==
  /\ Proc3!TypeOK
  /\ p3_mod = "unloaded" => p3_files = {}
  /\ p3_mod = "live" /\ p3_files # {} => p3_refs > 0

LEMMA Proc3InvInit == Proc3!Init => Proc3Inv
<1>1. 0 \in 0 .. PROCFS_MAX_SIZE /\ 0 \in 0 .. MaxRefs /\ 0 \in 0 .. MaxLen
  BY SmallAssumption DEF Proc3!ConstantsOK
<1> QED BY <1>1 DEF Proc3!Init, Proc3Inv, Proc3!TypeOK

\* Where a thread and its locals may be.
Proc3Pcs == [Two -> {"user", "read_min", "read_copy", "read_return", "write_copy",
                     "write_return"}]

LEMMA Proc3InvStep == Proc3Inv /\ [Proc3!Next]_p3 => Proc3Inv'
<1> SUFFICES ASSUME Proc3Inv, [Proc3!Next]_p3 PROVE Proc3Inv'
  OBVIOUS
<1>1. /\ Proc3!TypeOK /\ PROCFS_MAX_SIZE \in Nat /\ MaxLen \in Nat /\ MaxRefs \in Nat \ {0}
      /\ 0 \in 0 .. PROCFS_MAX_SIZE /\ 0 \in 0 .. MaxRefs /\ 0 \in 0 .. MaxLen
  BY SmallAssumption DEF Proc3Inv, Proc3!ConstantsOK
<1>2. CASE Proc3!procfs_3_init
  BY <1>1, <1>2 DEF Proc3!procfs_3_init, Proc3Inv, Proc3!TypeOK
<1>3. CASE Proc3!Rmmod
  BY <1>3 DEF Proc3!Rmmod, Proc3Inv, Proc3!TypeOK
<1>4. CASE Proc3!procfs_3_exit
  BY <1>4 DEF Proc3!procfs_3_exit, Proc3Inv, Proc3!TypeOK
<1>5. CASE Proc3!procfs_open \/ Proc3!procfs_close
  <2>1. /\ p3_refs' = IF p3_mod = "live" THEN Proc3!MinOf(p3_refs + 1, MaxRefs) ELSE p3_refs
        /\ p3_mod # "unloaded" /\ p3_files' \subseteq Files
        /\ UNCHANGED <<p3_size, p3_mod, p3_pc, p3_file, p3_length>>
    BY <1>1, <1>5 DEF Proc3!procfs_open, Proc3!procfs_close, Proc3!TryModuleGet, Proc3!TypeOK
  <2>2. p3_refs' \in 0 .. MaxRefs /\ (p3_mod = "live" => p3_refs' > 0)
    BY <1>1, <2>1 DEF Proc3!MinOf, Proc3!TypeOK
  <2> QED BY <1>1, <2>1, <2>2 DEF Proc3Inv, Proc3!TypeOK
<1>6. ASSUME NEW t \in Two,
             \/ Proc3!procfs_read(t) \/ Proc3!ReadMin(t)
             \/ Proc3!ReadCopy(t) \/ Proc3!ReadReturn(t) \/ Proc3!procfs_write(t) \/ Proc3!WriteCopy(t)
             \/ Proc3!WriteReturn(t)
      PROVE  Proc3Inv'
  <2>1. UNCHANGED <<p3_mod, p3_refs, p3_files>>
    BY <1>6 DEF Proc3!procfs_read, Proc3!ReadMin, Proc3!ReadCopy,
                Proc3!ReadReturn, Proc3!procfs_write, Proc3!WriteCopy, Proc3!WriteReturn
  <2>2. p3_size' \in 0 .. PROCFS_MAX_SIZE
    <3>1. CASE Proc3!ReadMin(t)
      <4>1. p3_size' = Proc3!MinOf(p3_size, p3_length[t])
        BY <3>1 DEF Proc3!ReadMin
      <4>2. p3_size \in 0 .. PROCFS_MAX_SIZE /\ p3_length[t] \in 0 .. MaxLen
        BY <1>1 DEF Proc3!TypeOK
      <4> QED BY <1>1, <4>1, <4>2 DEF Proc3!MinOf
    <3>2. CASE Proc3!procfs_write(t)
      <4>1. PICK n \in 0 .. MaxLen : p3_size' = Proc3!MinOf(PROCFS_MAX_SIZE, n)
        BY <3>2 DEF Proc3!procfs_write, Proc3!Limited
      <4> QED BY <1>1, <4>1 DEF Proc3!MinOf
    <3>3. CASE \/ Proc3!procfs_read(t) \/ Proc3!ReadCopy(t)
               \/ Proc3!ReadReturn(t) \/ Proc3!WriteCopy(t) \/ Proc3!WriteReturn(t)
      <4>1. p3_size' = p3_size
        BY <3>3 DEF Proc3!procfs_read, Proc3!ReadCopy, Proc3!ReadReturn,
                    Proc3!WriteCopy, Proc3!WriteReturn
      <4> QED BY <1>1, <4>1 DEF Proc3!TypeOK
    <3> QED BY <1>6, <3>1, <3>2, <3>3
  <2>3. p3_pc' \in Proc3Pcs
    BY <1>1, <1>6 DEF Proc3!procfs_read, Proc3!ReadMin, Proc3!ReadCopy,
                Proc3!ReadReturn, Proc3!procfs_write, Proc3!WriteCopy, Proc3!WriteReturn,
                Proc3!Leave, Proc3!Goto, Proc3!TypeOK, Proc3Pcs
  <2>4. p3_file' \in [Two -> Files \cup {None}]
    BY <1>1, <1>6 DEF Proc3!procfs_read, Proc3!ReadMin, Proc3!ReadCopy,
                Proc3!ReadReturn, Proc3!procfs_write, Proc3!WriteCopy, Proc3!WriteReturn,
                Proc3!Leave, Proc3!TypeOK
  <2>5. p3_length' \in [Two -> 0 .. MaxLen]
    BY <1>1, <1>6 DEF Proc3!procfs_read, Proc3!ReadMin, Proc3!ReadCopy,
                Proc3!ReadReturn, Proc3!procfs_write, Proc3!WriteCopy, Proc3!WriteReturn,
                Proc3!Leave, Proc3!TypeOK
  <2> QED BY <2>1, <2>2, <2>3, <2>4, <2>5 DEF Proc3Inv, Proc3!TypeOK, Proc3Pcs
<1>7. CASE UNCHANGED p3
  BY <1>7 DEF p3, Proc3Inv, Proc3!TypeOK
<1> QED BY <1>2, <1>3, <1>4, <1>5, <1>6, <1>7 DEF Proc3!Next

-----------------------------------------------------------------------------
(***************************************************************************)
(* kthread.c and timer.c.                                                  *)
(***************************************************************************)

\* Before the unload nothing stops the thread, and kthread_stop of a pointer
\* that is null is skipped only when there never was a thread.
KthInv ==
  /\ Kth!TypeOK /\ Kth!ThreadWithinModule
  /\ kt_mod = "live" => kt_flag = 0 /\ ~kt_stop
  /\ kt_thread = "null" => kt_task = "none"

LEMMA KthInvInit == Kth!Init => KthInv
BY DEF Kth!Init, KthInv, Kth!TypeOK, Kth!ThreadWithinModule

LEMMA KthInvStep == KthInv /\ [Kth!Next]_kt => KthInv'
<1> SUFFICES ASSUME KthInv, [Kth!Next]_kt PROVE KthInv'
  OBVIOUS
<1> USE DEF KthInv, Kth!TypeOK, Kth!ThreadWithinModule
<1>1. CASE Kth!my_kthread_init
  BY <1>1 DEF Kth!my_kthread_init
<1>2. CASE Kth!my_kthread_exit
  BY <1>2 DEF Kth!my_kthread_exit
<1>3. CASE Kth!Thread
  BY <1>3 DEF Kth!Thread, Kth!ThreadStart, Kth!my_thread_fn, Kth!StopCondition, Kth!ThreadLeave
<1>4. CASE Kth!TaskFreed
  BY <1>4 DEF Kth!TaskFreed
<1>5. CASE Kth!ExitWake
  BY <1>5 DEF Kth!ExitWake, Kth!Woken
<1>6. CASE Kth!kthread_stop
  BY <1>6 DEF Kth!kthread_stop, Kth!Woken
<1>7. CASE Kth!StopReturn
  BY <1>7 DEF Kth!StopReturn
<1>8. CASE UNCHANGED kt
  BY <1>8 DEF kt
<1> QED BY <1>1, <1>2, <1>3, <1>4, <1>5, <1>6, <1>7, <1>8 DEF Kth!Next, Kth!Exit

TimerInv == Timer!TypeOK /\ Timer!UnloadedIsClean

LEMMA TimerInvInit == Timer!Init => TimerInv
BY DEF Timer!Init, TimerInv, Timer!TypeOK, Timer!UnloadedIsClean

LEMMA TimerInvStep == TimerInv /\ [Timer!Next]_ti => TimerInv'
<1> SUFFICES ASSUME TimerInv, [Timer!Next]_ti PROVE TimerInv'
  OBVIOUS
<1> USE DEF TimerInv, Timer!TypeOK, Timer!UnloadedIsClean
<1>1. CASE Timer!timer_init
  BY <1>1 DEF Timer!timer_init
<1>2. CASE Timer!timer_exit
  BY <1>2 DEF Timer!timer_exit
<1>3. CASE Timer!Expire
  BY <1>3 DEF Timer!Expire
<1>4. CASE Timer!timer_handler
  BY <1>4 DEF Timer!timer_handler
<1>5. CASE Timer!HandlerReturn
  BY <1>5 DEF Timer!HandlerReturn
<1>6. CASE UNCHANGED ti
  BY <1>6 DEF ti
<1> QED BY <1>1, <1>2, <1>3, <1>4, <1>5, <1>6 DEF Timer!Next, Timer!Softirq

-----------------------------------------------------------------------------
(***************************************************************************)
(* All together.                                                           *)
(***************************************************************************)

SmallInv ==
  So2Inv /\ ExampleInv /\ IoctlInv /\ Proc2Inv /\ Proc3Inv /\ KthInv /\ TimerInv

\* A step of Small is a step of each module, or leaves it alone.
LEMMA OneMoves ==
  [Next]_vars => /\ [So2!Next]_so /\ [Example!Next]_ex /\ [Ioctl!Next]_io /\ [Proc2!Next]_p2
                 /\ [Proc3!Next]_p3 /\ [Kth!Next]_kt /\ [Timer!Next]_ti
BY DEF vars, Next, So2Next, ExampleNext, IoctlNext, Proc2Next, Proc3Next, KthreadNext,
       TimerNext, ListsNext, Stopped

\* The instances' Cardinality is that of FiniteSets.
LEMMA SameCardinality ==
  \A S : So2!Cardinality(S) = Cardinality(S) /\ Ioctl!Cardinality(S) = Cardinality(S)
<1> TAKE S
<1>1. So2!Cardinality(S) = Cardinality(S)
  BY DEF So2!Cardinality, Cardinality
<1>2. Ioctl!Cardinality(S) = Cardinality(S)
  BY DEF Ioctl!Cardinality, Cardinality
<1> QED BY <1>1, <1>2

LEMMA SmallInvHolds == Spec => []SmallInv
<1>1. Init => SmallInv
  BY So2InvInit, ExampleInvInit, IoctlInvInit, Proc2InvInit, Proc3InvInit, KthInvInit,
     TimerInvInit DEF Init, SmallInv
<1>2. SmallInv /\ [Next]_vars => SmallInv'
  BY OneMoves, So2InvStep, ExampleInvStep, IoctlInvStep, Proc2InvStep, Proc3InvStep,
     KthInvStep, TimerInvStep DEF SmallInv
<1> QED BY <1>1, <1>2, PTL DEF Spec

\* Type correctness of every small module, for every size of the buffers.  In
\* particular the reads and writes of so2_cdev.c at the position of the file, and
\* the preads and pwrites that start within the message, copy nothing past it
\* although threads share the position, which never leaves the message; and
\* procfs_3.c's shared size stays within its buffer although reads and writes
\* change it without a lock.
THEOREM TypeCorrect == Spec => []TypeOK
<1>1. SmallInv => TypeOK
  BY DEF SmallInv, So2Inv, ExampleInv, IoctlInv, Proc2Inv, Proc3Inv, KthInv, TimerInv, TypeOK
<1> QED BY <1>1, SmallInvHolds, PTL

\* so2_cdev.c never has a second file open or being opened, and dev_opend is 0
\* again when there is none, however opens, refusals, releases and reloads
\* interleave.
THEOREM OneOpener == Spec => []ExclusiveOpen
<1>1. So2Inv => ExclusiveOpen
  <2> SUFFICES ASSUME So2Inv PROVE Cardinality(Openers) = so_opend
    BY SameCardinality DEF ExclusiveOpen, So2!ExclusiveOpen, Openers
  <2>1. CASE so_opend = 0
    BY <2>1, FS_EmptySet DEF So2Inv
  <2>2. CASE so_opend = 1
    BY <2>2, FS_Singleton DEF So2Inv
  <2> QED BY <2>1, <2>2 DEF So2Inv, So2!TypeOK
<1>2. SmallInv => ExclusiveOpen
  BY <1>1 DEF SmallInv
<1> QED BY <1>2, SmallInvHolds, PTL

\* A call works with its own data: char_dev_example.c's readers, the bytes of one
\* read of ioctl.c, and the writes of procfs_2.c that do not overlap.
THEOREM CallsUseOwnData == Spec => []OwnData
<1>1. ExampleInv => Example!ReadsOwnMessage
  BY DEF ExampleInv
<1>2. IoctlInv => Ioctl!UniformRead
  <2> SUFFICES ASSUME IoctlInv, NEW t \in Two
               PROVE  /\ Cardinality(io_out[t]) <= 1
                      /\ io_pc[t] # "user" => io_data[io_file[t]] # None
    BY SameCardinality DEF Ioctl!UniformRead
  <2>1. io_out[t] = {} \/ io_out[t] = {io_val[t]}
    BY DEF IoctlInv
  <2>2. Cardinality(io_out[t]) \in {0, 1}
    BY <2>1, FS_EmptySet, FS_Singleton
  <2> QED BY <2>2 DEF IoctlInv
<1>3. Proc2Inv => Proc2!WriteIsOwn
  BY DEF Proc2Inv, Proc2!WriteIsOwn, Cut
<1>4. SmallInv => OwnData
  BY <1>1, <1>2, <1>3 DEF SmallInv, OwnData
<1> QED BY <1>4, SmallInvHolds, PTL

\* A failed load and an unload of ioctl.c give everything back, timer_exit leaves
\* no timer armed and no handler running, and kthread.c's thread is in the
\* module's code only while it is loaded.
THEOREM UnloadIsClean == Spec => []UnloadedIsClean
<1>1. SmallInv => UnloadedIsClean
  BY DEF SmallInv, IoctlInv, KthInv, TimerInv, Ioctl!UnloadedIsClean, UnloadedIsClean
<1> QED BY <1>1, SmallInvHolds, PTL

\* procfs_3.c: rmmod never begins while a file is open, for procfs_open's
\* reference is never given back.
THEOREM OpenFilesPin == Spec => NoUnloadInUse
<1>1. SmallInv /\ [Next]_vars =>
        [p3_mod = "live" /\ p3_mod' = "going" => p3_files = {}]_(Proc3!vars)
  <2> SUFFICES ASSUME Proc3Inv, [Proc3!Next]_p3, p3_mod = "live", p3_mod' = "going"
               PROVE  p3_files = {}
    BY OneMoves DEF SmallInv
  <2>1. CASE Proc3!Rmmod
    BY <2>1 DEF Proc3!Rmmod, Proc3Inv
  <2>2. CASE ~Proc3!Rmmod
    <3>1. p3_mod' = p3_mod \/ p3_mod' # "going"
      BY <2>2 DEF Proc3!Next, p3, Proc3!procfs_3_init, Proc3!procfs_3_exit, Proc3!procfs_open,
                  Proc3!procfs_close, Proc3!procfs_read, Proc3!ReadMin,
                  Proc3!ReadCopy, Proc3!ReadReturn, Proc3!procfs_write, Proc3!WriteCopy,
                  Proc3!WriteReturn
    <3> QED BY <3>1
  <2> QED BY <2>1, <2>2
<1> QED BY <1>1, SmallInvHolds, PTL DEF Spec, NoUnloadInUse, Proc3!NoUnloadInUse
=============================================================================
