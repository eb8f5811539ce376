------------------------------- MODULE Logging -------------------------------
(***************************************************************************)
(* The logging of platform/src/uti_logging.c: threads that log messages to *)
(* a file under a mutex, its rotation when it is full, and file_log_close, *)
(* which takes no mutex.                                                   *)
(*                                                                         *)
(* The descriptor of the log file is a global variable that each use reads *)
(* again, at any time after the system call before: a use may see its      *)
(* value then, kept in a register, or its value now.  The messages are     *)
(* those that pass the level and length tests of log_printf.               *)
(***************************************************************************)
EXTENDS Integers, Sequences, FiniteSets, SequencesExt

CONSTANTS
  Thread,
  Msg,
  Fd,           \* file descriptors
  NULL,         \* INVALID_FILE_DESC, and no thread
  Length,       \* the length of each message
  AskedSize,    \* the file sizes given to log_sys_init
  DefaultSize,  \* LOG_FILE_DEFAULT_SIZE
  MaxSize       \* LOG_FILE_MAX_SIZE

ASSUME LoggingAssumption ==
  /\ NULL \notin Thread \cup Fd \cup Msg \cup Nat
  /\ Length \in [Msg -> Nat \ {0}]
  /\ AskedSize \subseteq Nat
  /\ DefaultSize \in 1..MaxSize
  /\ MaxSize \in Nat

VARIABLES
  handler,    \* plog_handler: default_log_agent or file_log_agent
  fileSize,   \* file_log_setting.file_size
  fileDesc,   \* file_log_setting.file_desc
  mutex,      \* the thread that has g_LogMutex
  pc, msg, reg, failed,   \* of each thread: where it is, its message, its
                          \* register, and whether the system failed it
  asked,      \* history: the messages given to log_printf
  raced,      \* history: whether file_log_close ran while a thread logged
  open,       \* what each descriptor is open on: 0 for a file of other code
  files,      \* the log files in the order of creation, each a sequence of
              \* messages, or beginnings of them, with their sizes
  console     \* what was printed

trace   == <<handler, fileSize>>
threads == <<pc, msg, reg, failed>>
history == <<asked, raced>>
system  == <<open, files, console>>
vars    == <<trace, fileDesc, mutex, threads, history, system>>

Piece == [msg : Msg, size : Nat \ {0}]

TypeOK ==
  /\ handler \in {"default", "file"}
  /\ fileSize \in 1..MaxSize
  /\ fileDesc \in Fd \cup {NULL}
  /\ mutex \in Thread \cup {NULL}
  /\ pc \in [Thread -> {"idle", "lock", "agent", "stat", "rotate", "open", "store",
                        "check", "write", "unlock", "closing", "closed"}]
  /\ msg \in [Thread -> Msg \cup {NULL}]
  /\ reg \in [Thread -> Fd \cup {NULL}]
  /\ failed \in [Thread -> BOOLEAN]
  /\ asked \subseteq Msg
  /\ raced \in BOOLEAN
  /\ files \in Seq(Seq(Piece))
  /\ open \in [Fd -> {0, NULL} \cup 1..Len(files)]
  /\ console \in Seq(Msg)

-----------------------------------------------------------------------------
SizeOf(content) == FoldSeq(LAMBDA piece, n : piece.size + n, 0, content)

IsOpen(d) == d # NULL /\ open[d] # NULL

Go(t, place) == pc' = [pc EXCEPT ![t] = place]

(* What a use of file_desc by thread t may see.                            *)
Read(t) == {fileDesc} \cup (IF reg[t] = NULL THEN {} ELSE {reg[t]})

Closed(d) == IF d = NULL THEN open ELSE [open EXCEPT ![d] = NULL]

(* A mutant: a size of 0 is kept.                                          *)
MutFileSize(n) == IF n > MaxSize THEN DefaultSize ELSE n

FileSize(n) == IF n = 0 \/ n > MaxSize THEN DefaultSize ELSE n

(* log_sys_init, which comes before any other call.                        *)
Init ==
  /\ handler \in {"default", "file"}
  /\ \E n \in AskedSize : fileSize = FileSize(n)
  /\ fileDesc = NULL
  /\ mutex = NULL
  /\ pc = [t \in Thread |-> "idle"]
  /\ msg = [t \in Thread |-> NULL]
  /\ reg = [t \in Thread |-> NULL]
  /\ failed = [t \in Thread |-> FALSE]
  /\ asked = {}
  /\ raced = FALSE
  /\ open = [d \in Fd |-> NULL]
  /\ files = <<>>
  /\ console = <<>>

Closing(t) == pc[t] \in {"closing", "closed"}

(* log_printf up to the lock.                                              *)
log_printf(t, m) ==
  /\ pc[t] = "idle"
  /\ m \notin asked
  /\ asked' = asked \cup {m}
  /\ raced' = (raced \/ \E u \in Thread : Closing(u))
  /\ msg' = [msg EXCEPT ![t] = m]
  /\ failed' = [failed EXCEPT ![t] = FALSE]
  /\ Go(t, "lock")
  /\ UNCHANGED <<trace, fileDesc, mutex, reg, system>>

Lock(t) ==
  /\ pc[t] = "lock"
  /\ mutex = NULL
  /\ mutex' = t
  /\ Go(t, "agent")
  /\ UNCHANGED <<trace, fileDesc, msg, reg, failed, history, system>>

(* A mutant: log_printf returns when the handler fails.                    *)
MutUnlock(t) ==
  /\ pc[t] = "unlock"
  /\ mutex' = IF failed[t] THEN mutex ELSE NULL
  /\ msg' = [msg EXCEPT ![t] = NULL]
  /\ reg' = [reg EXCEPT ![t] = NULL]
  /\ Go(t, "idle")
  /\ UNCHANGED <<trace, fileDesc, failed, history, system>>

(* The result of the handler is not looked at.                             *)
Unlock(t) ==
  /\ pc[t] = "unlock"
  /\ mutex' = NULL
  /\ msg' = [msg EXCEPT ![t] = NULL]
  /\ reg' = [reg EXCEPT ![t] = NULL]
  /\ Go(t, "idle")
  /\ UNCHANGED <<trace, fileDesc, failed, history, system>>

default_log_agent(t) ==
  /\ pc[t] = "agent"
  /\ handler = "default"
  /\ console' = Append(console, msg[t])
  /\ Go(t, "unlock")
  /\ UNCHANGED <<trace, fileDesc, mutex, msg, reg, failed, history, open, files>>

-----------------------------------------------------------------------------
(* file_log_agent.                                                         *)

file_log_agent(t) ==
  /\ pc[t] = "agent"
  /\ handler = "file"
  /\ reg' = [reg EXCEPT ![t] = fileDesc]
  /\ Go(t, IF fileDesc = NULL THEN "open" ELSE "stat")
  /\ UNCHANGED <<trace, fileDesc, mutex, msg, failed, history, system>>

(* A mutant: a file of just its size gets one more message.                *)
MutFull(i) == SizeOf(files[i]) > fileSize

Full(i) == SizeOf(files[i]) >= fileSize

(* os_stat_file_size; a file of other code has any size.                   *)
Stat(t) ==
  /\ pc[t] = "stat"
  /\ \/ \E d \in Read(t) :
          /\ IsOpen(d)
          /\ \E full \in BOOLEAN :
               /\ open[d] # 0 => full = Full(open[d])
               /\ Go(t, IF full THEN "rotate" ELSE "write")
          /\ UNCHANGED failed
     \/ /\ \E d \in Read(t) : ~IsOpen(d)
        /\ Go(t, "unlock")
        /\ UNCHANGED failed
     \/ /\ failed' = [failed EXCEPT ![t] = TRUE]
        /\ Go(t, "unlock")
  /\ reg' = [reg EXCEPT ![t] = fileDesc]
  /\ UNCHANGED <<trace, fileDesc, mutex, msg, history, system>>

(* A mutant: the full file stays open.                                     *)
MutRotate(t) ==
  /\ pc[t] = "rotate"
  /\ Go(t, "open")
  /\ UNCHANGED <<trace, fileDesc, mutex, msg, reg, failed, history, system>>

Rotate(t) ==
  /\ pc[t] = "rotate"
  /\ \E d \in Read(t) : open' = Closed(d)
  /\ Go(t, "open")
  /\ UNCHANGED <<trace, fileDesc, mutex, msg, reg, failed, history, files, console>>

(* A mutant: the next file has the name of the last one, and truncates it. *)
MutWithNewFile ==
  IF files = <<>> THEN << <<>> >> ELSE [files EXCEPT ![Len(files)] = <<>>]

(* The name of a new file is the time of day, in microseconds.             *)
WithNewFile == Append(files, <<>>)

(* log_file_open.                                                          *)
Open(t) ==
  /\ pc[t] = "open"
  /\ \/ \E d \in Fd :
          /\ ~IsOpen(d)
          /\ files' = WithNewFile
          /\ open' = [open EXCEPT ![d] = Len(files')]
          /\ reg' = [reg EXCEPT ![t] = d]
          /\ UNCHANGED failed
     \/ /\ reg' = [reg EXCEPT ![t] = NULL]
        /\ failed' = [failed EXCEPT ![t] = TRUE]
        /\ UNCHANGED <<files, open>>
  /\ Go(t, "store")
  /\ UNCHANGED <<trace, fileDesc, mutex, msg, history, console>>

Store(t) ==
  /\ pc[t] = "store"
  /\ fileDesc' = reg[t]
  /\ Go(t, "check")
  /\ UNCHANGED <<trace, mutex, msg, reg, failed, history, system>>

Check(t) ==
  /\ pc[t] = "check"
  /\ \E d \in Read(t) : Go(t, IF d = NULL THEN "unlock" ELSE "write")
  /\ UNCHANGED <<trace, fileDesc, mutex, msg, reg, failed, history, system>>

(* os_write_file_datagram: writes the message, or as much of it as the     *)
(* system takes, with no second try; what goes elsewhere is lost.          *)
Write(t) ==
  /\ pc[t] = "write"
  /\ \/ \E d \in Read(t), n \in 1..Length[msg[t]] :
          /\ files' = IF IsOpen(d) /\ open[d] # 0
                        THEN [files EXCEPT ![open[d]] = Append(@, [msg |-> msg[t], size |-> n])]
                        ELSE files
          /\ failed' = [failed EXCEPT ![t] = n < Length[msg[t]]]
     \/ failed' = [failed EXCEPT ![t] = TRUE] /\ UNCHANGED files
  /\ Go(t, "unlock")
  /\ UNCHANGED <<trace, fileDesc, mutex, msg, reg, history, open, console>>

-----------------------------------------------------------------------------
(* file_log_close.                                                         *)
file_log_close(t) ==
  /\ pc[t] = "idle"
  /\ fileDesc # NULL
  /\ raced' = (raced \/ \E u \in Thread : pc[u] # "idle")
  /\ reg' = [reg EXCEPT ![t] = fileDesc]
  /\ Go(t, "closing")
  /\ UNCHANGED <<trace, fileDesc, mutex, msg, failed, asked, system>>

CloseFile(t) ==
  /\ pc[t] = "closing"
  /\ \E d \in Read(t) : open' = Closed(d)
  /\ reg' = [reg EXCEPT ![t] = NULL]
  /\ Go(t, "closed")
  /\ UNCHANGED <<trace, fileDesc, mutex, msg, failed, history, files, console>>

(* A mutant: the closed descriptor stays in file_desc.                     *)
MutInvalidate(t) ==
  /\ pc[t] = "closed"
  /\ Go(t, "idle")
  /\ UNCHANGED <<trace, fileDesc, mutex, msg, reg, failed, history, system>>

Invalidate(t) ==
  /\ pc[t] = "closed"
  /\ fileDesc' = NULL
  /\ Go(t, "idle")
  /\ UNCHANGED <<trace, mutex, msg, reg, failed, history, system>>

(* Other code of the program opens a file, or closes one of its own.       *)
OtherCode(d) ==
  /\ open[d] \in {0, NULL}
  /\ open' = [open EXCEPT ![d] = IF @ = NULL THEN 0 ELSE NULL]
  /\ UNCHANGED <<trace, fileDesc, mutex, threads, history, files, console>>

Agent(t) ==
  \/ default_log_agent(t)
  \/ file_log_agent(t)
  \/ Stat(t)
  \/ Rotate(t)
  \/ Open(t)
  \/ Store(t)
  \/ Check(t)
  \/ Write(t)
  \/ Unlock(t)

Close(t) == file_log_close(t) \/ CloseFile(t) \/ Invalidate(t)

Next ==
  \/ \E t \in Thread, m \in Msg : log_printf(t, m)
  \/ \E t \in Thread : Lock(t) \/ Agent(t) \/ Close(t)
  \/ \E d \in Fd : OtherCode(d)

(* A thread that has the mutex runs on.                                    *)
Spec == Init /\ [][Next]_vars /\ \A t \in Thread : WF_vars(Agent(t))

-----------------------------------------------------------------------------
(* Properties.                                                             *)

(* A log file reaches its size only with its last message                  *)
(* (uti_logging.c:306, before the write at :319).                          *)
FilesBounded ==
  \A i \in 1..Len(files) : files[i] # <<>> => SizeOf(Front(files[i])) < fileSize

(* If file_log_close is not called while a thread logs, no descriptor is   *)
(* lost: one is open on a log file between two calls just if file_desc is  *)
(* not invalid, and then it is this one, on the newest file                *)
(* (uti_logging.c:280, :309-311, :335-336).                                *)
OneLogFile ==
  LET logs == {d \in Fd : open[d] \in 1..Len(files)} IN
  ~raced =>
    /\ Cardinality(logs) <= 1
    /\ (\A t \in Thread : pc[t] \in {"idle", "lock"}) =>
         /\ logs = {fileDesc} \ {NULL}
         /\ \A d \in logs : open[d] = Len(files)

(* If file_log_close is not called while a thread logs, log_printf loses   *)
(* its message, or the end of it, only when the system refuses to stat,    *)
(* open or write a file or takes only a part: never for a descriptor that  *)
(* is closed or is another file's by now (uti_logging.c:201-208, :287,     *)
(* :319).                                                                  *)
NoSilentLoss ==
  ~raced => \A t \in Thread : (pc[t] = "unlock" /\ ~failed[t]) =>
    \/ msg[t] \in ToSet(console)
    \/ \E i \in 1..Len(files) :
         [msg |-> msg[t], size |-> Length[msg[t]]] \in ToSet(files[i])

(* Every path through a handler releases the mutex (uti_logging.c:199-208).*)
MutexReleased == \A t \in Thread : mutex = t ~> mutex # t

(* The log files one after the other, or the console, are the log: however *)
(* threads, rotations and closes interleave, a message is added at its end *)
(* and is in it once.                                                      *)
Written == LET all == FlattenSeq(files) IN [i \in 1..Len(all) |-> all[i].msg]

Log == INSTANCE MessageLog WITH log <- Written \o console
LogSpec == Log!Spec

=============================================================================
