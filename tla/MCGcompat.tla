------------------------------ MODULE MCGcompat ------------------------------
(***************************************************************************)
(* Model-checking instance of what libgcompat computes for one caller: in  *)
(* every behaviour either a deadline on the caller's clock, or an obstack; *)
(* kind says which.                                                        *)
(***************************************************************************)
EXTENDS ClockTimeout

CONSTANTS Memory, Blocks, Header, Alignment, ChunkSize, Slack, SIZE_MAX, Lengths,
          MaxObjects

VARIABLES kind,
          chunks, object_base, next_free, chunk_limit, maybe_empty_object,
          heap, mem, live, status

obstack == <<chunks, object_base, next_free, chunk_limit, maybe_empty_object,
             heap, mem, live, status>>

Obstack == INSTANCE Obstack

GcompatInit == /\ kind \in {"clock", "obstack"}
               /\ Init /\ Obstack!Init
               /\ kind = "obstack" => off = 0 /\ condclock = "realtime"

GcompatNext ==
  /\ \/ kind = "clock" /\ Next /\ UNCHANGED obstack
     \/ kind = "obstack" /\ Obstack!Next /\ UNCHANGED vars
  /\ UNCHANGED kind

GcompatSpec == GcompatInit /\ [][GcompatNext]_<<kind, vars, obstack>>

-----------------------------------------------------------------------------
\* The results of pthread_clockjoin_np and pthread_cond_clockwait say whether
\* the deadline has passed.
DeadlineSound == TypeOK /\ ResultRight

\* The objects of an obstack keep their place and their bytes.
ObjectsIntact == Obstack!ObjectsIntact

\* The chunks of an obstack are neither lost nor freed twice.
ChunksAccounted == Obstack!ChunksAccounted
=============================================================================
