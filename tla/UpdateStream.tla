---------------------------- MODULE UpdateStream ----------------------------
(***************************************************************************)
(* What the sender's pipeline promises: every change of the screen is cut, *)
(* at once, into disjoint jobs that hold exactly the changed tiles; every  *)
(* job is handed to the transport at most once, or dropped; nothing is     *)
(* invented.  In which order jobs are delivered is not promised.           *)
(***************************************************************************)
EXTENDS Naturals, SequencesExt

VARIABLES
  screen,    \* tile -> the capture its content comes from
  pending,   \* the jobs on their way
  sent,      \* the jobs delivered, in order
  dropped    \* the jobs that will never be delivered

streamVars == <<screen, pending, sent, dropped>>

Changed(old, new) ==
  {c \in DOMAIN new : c \notin DOMAIN old \/ new[c] # old[c]}

\* The jobs that partition a set of tiles, all cut from capture n.
Partition(jobs, tiles, n) ==
  /\ UNION {j.cells : j \in jobs} = tiles
  /\ \A j \in jobs : j.shot = n
  /\ \A j, k \in jobs : j # k => j.cells \cap k.cells = {}

StreamInit ==
  /\ \A c \in DOMAIN screen : screen[c] = 0
  /\ Partition(pending, DOMAIN screen, 0)
  /\ sent = <<>>
  /\ dropped = {}

\* A capture is newer than everything captured before; its jobs may be lost
\* as soon as they are cut.
Capture ==
  LET fresh == (pending' \ pending) \cup (dropped' \ dropped)
  IN  /\ screen' # screen
      /\ \E j \in fresh :
           /\ Partition(fresh, Changed(screen, screen'), j.shot)
           /\ \A c \in DOMAIN screen : screen[c] < j.shot
           /\ \A c \in Changed(screen, screen') : screen'[c] = j.shot
      /\ pending \subseteq pending' /\ dropped \subseteq dropped'
      /\ pending' \cap dropped' = {}
      /\ UNCHANGED sent

\* A batch of jobs is delivered; when the transport fails, the rest of the
\* batch is dropped.
Deliver ==
  LET new == SubSeq(sent', Len(sent) + 1, Len(sent'))
      gone == ToSet(new) \cup (dropped' \ dropped)
  IN  /\ IsPrefix(sent, sent')
      /\ IsInjective(new)
      /\ ToSet(new) \cap dropped' = {}
      /\ gone # {}
      /\ gone \subseteq pending
      /\ pending' = pending \ gone
      /\ dropped \subseteq dropped'
      /\ UNCHANGED screen

StreamNext == Capture \/ Deliver

StreamSpec == StreamInit /\ [][StreamNext]_streamVars
=============================================================================
