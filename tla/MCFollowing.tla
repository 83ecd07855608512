---------------------------- MODULE MCFollowing ----------------------------
(***************************************************************************)
(* A master and its replicas from two sides, each on a small instance: how *)
(* the stream is counted and waited for, and one replica's conversation    *)
(* byte by byte.  `part' says which of them a behaviour is about; the      *)
(* variables of the other stay as they begin.                              *)
(***************************************************************************)
EXTENDS MCReplication

VARIABLES
    part,
    stage, said, heard, followed, carried, reports,
    wire, role, count, streamed, asked

counts == <<offset, following, link, pipe, position, acks, reached, missed, slipped,
            pc, passed, target, wanted, stirred, due, blur>>
conversation == <<stage, said, heard, followed, carried, reports,
                  wire, role, count, streamed, asked>>

-----------------------------------------------------------------------------
(* Two changes, one of them with a CRLF of its own in it; a dataset with a *)
(* CRLF in it and what looks like the start of a bulk string; refusals of  *)
(* several kinds; counts of one and of two digits.                         *)

V == INSTANCE Resp

Changes == {V!Array(<<V!BulkString(<<83>>), V!BulkString(V!CRLF)>>),
            V!Array(<<V!BulkString(<<82>>), V!BulkString(<<120>>)>>)}
Refusals == {V!Error(<<78>>), V!Integer(-1), V!Null}
EMPTY_DATASET == <<82, 13, 10, 36>>
Offsets == {0, 12}

R == INSTANCE Conversation WITH offset <- followed, master <- role, MaxPassedOn <- 3

-----------------------------------------------------------------------------
InitFollowing ==
    /\ part \in {"counts", "conversation"}
    /\ Init /\ R!Init
    /\ part = "conversation" \/ count = 0

NextFollowing ==
    /\ \/ part = "counts" /\ Next /\ UNCHANGED conversation
       \/ part = "conversation" /\ R!Next /\ UNCHANGED counts
    /\ UNCHANGED part

SpecFollowing == InitFollowing /\ [][NextFollowing]_<<part, counts, conversation>>

-----------------------------------------------------------------------------
\* The type invariants of the two.
TypesOK == IF part = "counts" THEN TypeOK ELSE R!TypeOK

\* A replica carries out just what was streamed, and counts it (Conversation).
StreamIsCarriedOut == part = "conversation" => R!StreamIsCarriedOut

\* What has arrived is not left lying unread (Conversation).
NothingLeftLying == part = "conversation" => R!NothingLeftLying
=============================================================================
