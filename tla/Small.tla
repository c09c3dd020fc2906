--------------------------------- MODULE Small --------------------------------
(***************************************************************************)
(* The small modules of the repository side by side, and the calls of      *)
(* list_sync on a small instance, for what fair scheduling makes of them.  *)
(* They share no state, so a behaviour exercises one of them (subject) and *)
(* leaves the others unloaded: what holds of a module in these behaviours  *)
(* holds of it whatever the others do.                                     *)
(***************************************************************************)
EXTENDS Integers

CONSTANTS
  Two, Three, Files,        \* the threads, two and three of them for TLC, and the files
  SIZE, BUFSIZ, WORD,       \* so2_cdev.c: the sizes of the message, of its buffer, of size_t
  MaxReq, MaxPos,           \* so2_cdev.c: the largest request and offset
  TextLen, MaxOpens,        \* char_dev_example.c: the length of the message, the opens
  BYTE, Vals, MaxRead,      \* ioctl.c: the size of an unsigned char, values set, bytes read
  PROCFS_MAX_SIZE, MaxLen,  \* procfs_2.c and procfs_3.c: the size of the buffer, of a request
  MaxRefs,                  \* procfs_3.c: where the count of references stops
  None

VARIABLES
  subject,
  so_region, so_mod, so_cdev, so_oops, so_opend, so_flag, so_files, so_fpos, so_pc, so_file,
  so_offset, so_size,
  ex_open, ex_counter, ex_msg, ex_mod, ex_oops, ex_pc, ex_fpos, ex_told, ex_got,
  io_mod, io_held, io_data, io_pc, io_file, io_val, io_count, io_out,
  p2_mod, p2_size, p2_pc, p2_length, p2_overlap,
  p3_size, p3_mod, p3_refs, p3_files, p3_pc, p3_file, p3_length,
  kt_mod, kt_thread, kt_task, kt_flag, kt_stop, kt_oops,
  ti_mod, ti_pending, ti_handler,
  ls_list, ls_heap, ls_now, ls_stuck, ls_mod, ls_pc, ls_left, ls_ti

So2 == INSTANCE So2Cdev WITH
  Threads <- Three, NoFile <- None,
  region <- so_region, mod <- so_mod, cdev <- so_cdev, oops <- so_oops, dev_opend <- so_opend,
  flag <- so_flag, files <- so_files, fpos <- so_fpos, pc <- so_pc, file <- so_file,
  offset <- so_offset, size <- so_size

Example == INSTANCE CharDevExample WITH
  Users <- Three, MaxCount <- MaxOpens,
  already_open <- ex_open, counter <- ex_counter, msg <- ex_msg, mod <- ex_mod,
  oops <- ex_oops, pc <- ex_pc, fpos <- ex_fpos, told <- ex_told, got <- ex_got

Ioctl == INSTANCE IoctlTest WITH
  Threads <- Two, MaxCount <- MaxRead,
  mod <- io_mod, held <- io_held, data <- io_data, pc <- io_pc, file <- io_file,
  val <- io_val, count <- io_count, out <- io_out

Proc2 == INSTANCE Procfs2 WITH
  Threads <- Three,
  mod <- p2_mod, procfs_buffer_size <- p2_size, pc <- p2_pc, buffer_length <- p2_length,
  overlap <- p2_overlap

Proc3 == INSTANCE Procfs3 WITH
  Threads <- Two, NoFile <- None,
  procfs_buffer_size <- p3_size, mod <- p3_mod, refs <- p3_refs, files <- p3_files,
  pc <- p3_pc, file <- p3_file, length <- p3_length

Kth == INSTANCE Kthread WITH
  mod <- kt_mod, my_thread <- kt_thread, task <- kt_task, flag_stop_thread <- kt_flag,
  should_stop <- kt_stop, oops <- kt_oops

Timer == INSTANCE KernelTimer WITH
  mod <- ti_mod, pending <- ti_pending, handler <- ti_handler

Lists == INSTANCE ListSync WITH
  Users <- Two, Self <- "list_sync", Pids <- Two, Addrs <- Files, Null <- None,
  Adds <- 1, Expiry <- 1, KeepCount <- 1, Wrap <- 3, IntMax <- 1, MaxTime <- 1,
  list <- ls_list, heap <- ls_heap, now <- ls_now, stuck <- ls_stuck, mod <- ls_mod,
  pc <- ls_pc, left <- ls_left, ti <- ls_ti

ASSUME SmallAssumption ==
  So2!ConstantsOK /\ Example!ConstantsOK /\ Ioctl!ConstantsOK /\ Proc2!ConstantsOK
    /\ Proc3!ConstantsOK

so == <<so_region, so_mod, so_cdev, so_oops, so_opend, so_flag, so_files, so_fpos, so_pc,
        so_file, so_offset, so_size>>
ex == <<ex_open, ex_counter, ex_msg, ex_mod, ex_oops, ex_pc, ex_fpos, ex_told, ex_got>>
io == <<io_mod, io_held, io_data, io_pc, io_file, io_val, io_count, io_out>>
p2 == <<p2_mod, p2_size, p2_pc, p2_length, p2_overlap>>
p3 == <<p3_size, p3_mod, p3_refs, p3_files, p3_pc, p3_file, p3_length>>
kt == <<kt_mod, kt_thread, kt_task, kt_flag, kt_stop, kt_oops>>
ti == <<ti_mod, ti_pending, ti_handler>>
ls == <<ls_list, ls_heap, ls_now, ls_stuck, ls_mod, ls_pc, ls_left, ls_ti>>
vars == <<subject, so, ex, io, p2, p3, kt, ti, ls>>

Init ==
  /\ subject \in {"so2", "example", "ioctl", "procfs2", "procfs3", "kthread", "timer",
                 "list_sync"}
  /\ So2!Init /\ Example!Init /\ Ioctl!Init /\ Proc2!Init /\ Proc3!Init /\ Kth!Init /\ Timer!Init
  /\ Lists!Init

So2Next == subject = "so2" /\ So2!Next /\ UNCHANGED <<subject, ex, io, p2, p3, kt, ti, ls>>
ExampleNext == subject = "example" /\ Example!Next /\ UNCHANGED <<subject, so, io, p2, p3, kt, ti, ls>>
IoctlNext == subject = "ioctl" /\ Ioctl!Next /\ UNCHANGED <<subject, so, ex, p2, p3, kt, ti, ls>>
Proc2Next == subject = "procfs2" /\ Proc2!Next /\ UNCHANGED <<subject, so, ex, io, p3, kt, ti, ls>>
Proc3Next == subject = "procfs3" /\ Proc3!Next /\ UNCHANGED <<subject, so, ex, io, p2, kt, ti, ls>>
KthreadNext == subject = "kthread" /\ Kth!Next /\ UNCHANGED <<subject, so, ex, io, p2, p3, ti, ls>>
TimerNext == subject = "timer" /\ Timer!Next /\ UNCHANGED <<subject, so, ex, io, p2, p3, kt, ls>>
ListsNext == subject = "list_sync" /\ Lists!Next /\ UNCHANGED <<subject, so, ex, io, p2, p3, kt, ti>>

\* A module that ran into undefined behaviour has stopped.
Stopped == (so_oops \/ ex_oops \/ kt_oops \/ ls_stuck) /\ UNCHANGED vars

Next ==
  \/ So2Next \/ ExampleNext \/ IoctlNext \/ Proc2Next \/ Proc3Next \/ KthreadNext \/ TimerNext
  \/ ListsNext \/ Stopped

Spec == Init /\ [][Next]_vars

\* The fairness of the modules' own specifications.
FairSpec ==
  /\ Spec
  /\ \A t \in Three : WF_so(So2!Inside(t))
  /\ WF_kt(Kth!Thread) /\ WF_kt(Kth!Exit)
  /\ WF_ti(Timer!Softirq)
  /\ WF_ls(Lists!list_sync_live) /\ WF_ls(Lists!task_info_purge_list)
  /\ \A u \in Two : WF_ls(Lists!list_test_live(u))
  /\ \A c \in Lists!Callers : WF_ls(Lists!AddSteps(c))

-----------------------------------------------------------------------------
\* Type correctness of every small module; in particular no read or write of
\* so2_cdev.c at the position of the file leaves the message, and no call of
\* procfs_3.c its buffer, whatever the threads that share position and size do
\* between the test and the copy.  A pread or pwrite of so2_cdev.c stays within
\* the message if it starts there.
TypeOK ==
  /\ So2!TypeOK /\ Example!TypeOK /\ Ioctl!TypeOK /\ Proc2!TypeOK /\ Proc3!TypeOK
  /\ Kth!TypeOK /\ Timer!TypeOK
  /\ So2!CopyInBounds

\* so2_cdev.c: dev_opend admits one file, open or being opened.
ExclusiveOpen == So2!ExclusiveOpen

\* A call works with its own data: a reader of char_dev_example.c gets the
\* message of its own open, the bytes of one read of ioctl.c agree though the
\* value is set meanwhile, and a write of procfs_2.c uses its own length unless
\* writes overlap.
OwnData == Example!ReadsOwnMessage /\ Ioctl!UniformRead /\ Proc2!WriteIsOwn

\* The error label and the unload of ioctl.c leave nothing, no timer of timer.c
\* and no thread of kthread.c outlives its module.
UnloadedIsClean ==
  Ioctl!UnloadedIsClean /\ Timer!UnloadedIsClean /\ Kth!ThreadWithinModule

\* procfs_3.c: an open file keeps the module loaded.
NoUnloadInUse == Proc3!NoUnloadInUse

\* Waits end: MY_IOCTL_UP of so2_cdev.c wakes every thread in MY_IOCTL_DOWN, the
\* unload of kthread.c returns, the timer of timer.c fires again and again, and
\* the calls of list_sync.c return unless an allocation failed.
WaitsEnd ==
  So2!UpReleasesDown /\ Kth!UnloadFinishes /\ Timer!Ticks /\ Lists!CallsReturn
===============================================================================
