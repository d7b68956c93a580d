------------------------------- MODULE Messages -------------------------------
(***************************************************************************)
(* The binary form of requests and responses (message.cpp, codec.hpp).     *)
(*                                                                         *)
(* The buffer is a sequence of fields.  Fields that are written whatever   *)
(* the message says, one after the other, are kept as one; everything that *)
(* makes the length of a message or the reading of a later field depend on *)
(* an earlier one is kept: the optional group, strings, vectors with their *)
(* present bits, lists with a count, sentinels and bounds.                 *)
(***************************************************************************)
EXTENDS Integers, Sequences

CONSTANTS Dimensions,   \* kResourceDimensionCount
          MaxString,    \* the reader's bound on a string
          NoValue,      \* an empty optional
          Malformed     \* the outcome of a read that throws decode_error

ASSUME MessageAssumption ==
  Dimensions \in Nat /\ MaxString \in Nat /\ NoValue \notin Nat

-----------------------------------------------------------------------------
(***************************************************************************)
(* What a message can say.  No amount is negative (ResourceVector::set);   *)
(* no dimension has the number that stands for none.                       *)
(***************************************************************************)
RequestTyped(q) ==
  \E D \in SUBSET (0..(Dimensions - 1)) :
    q \in [type : Nat, group : Nat \cup {NoValue}, name : Seq(Nat),
           req : [D -> Nat], at : Int]

ResponseTyped(r) ==
  r \in [ok : Nat, message : Seq(Nat), limiting_dimension : (Nat \ {255}) \cup {NoValue},
         recall : Seq(Nat), epoch : Nat]

-----------------------------------------------------------------------------
(***************************************************************************)
(* BinaryWriter.                                                           *)
(***************************************************************************)
put_optional(x) == IF x = NoValue THEN <<0>> ELSE <<1, x>>

\* A string, or a list of enumeration values.
put_list(s) == <<Len(s)>> \o s

\* A count, then for every dimension its present bit and its amount.
put_vector(v) ==
  [k \in 1..(1 + 2 * Dimensions) |->
     LET d == (k - 2) \div 2
     IN  IF k = 1 THEN Dimensions
         ELSE IF d \notin DOMAIN v THEN 0
         ELSE IF k % 2 = 0 THEN 1 ELSE v[d]]

-----------------------------------------------------------------------------
(***************************************************************************)
(* BinaryReader.  A reader is an offset into the buffer, counted from      *)
(* zero.  A read past the end throws: here it reads zero and leaves the    *)
(* offset past the end, where it stays, and the message is malformed.      *)
(***************************************************************************)
u8(p, off) == IF off < Len(p) THEN p[off + 1] ELSE 0

optional(p, off)      == IF u8(p, off) # 0 THEN u8(p, off + 1) ELSE NoValue
AfterOptional(p, off) == off + (IF u8(p, off) # 0 THEN 2 ELSE 1)

list(p, off)      == SubSeq(p, off + 2, off + 1 + u8(p, off))
AfterList(p, off) == off + 1 + u8(p, off)
StringOk(p, off)  == u8(p, off) <= MaxString

vector(p, off) ==
  [d \in {i \in 0..(u8(p, off) - 1) : u8(p, off + 1 + 2 * i) # 0} |->
     u8(p, off + 2 + 2 * d)]
AfterVector(p, off) == off + 1 + 2 * u8(p, off)
VectorOk(p, off) ==
  /\ u8(p, off) <= Dimensions
  /\ \A i \in 1..u8(p, off) : u8(p, off + 2 * i) >= 0

-----------------------------------------------------------------------------
(***************************************************************************)
(* Requests: type, authority and identifiers; group; names; amounts and    *)
(* quota; observation.  A time that is not positive is sent as zero.       *)
(***************************************************************************)
SentTime(at) == IF at > 0 THEN at ELSE 0

encode_request(q) ==
  <<q.type>> \o put_optional(q.group) \o put_list(q.name)
    \o put_vector(q.req) \o <<SentTime(q.at)>>

\* What follows the last field is not looked at.
decode_request(p) ==
  LET name == AfterOptional(p, 1)
      req  == AfterList(p, name)
      at   == AfterVector(p, req)
  IN  IF at < Len(p) /\ StringOk(p, name) /\ VectorOk(p, req)
      THEN [type |-> u8(p, 0), group |-> optional(p, 1), name |-> list(p, name),
            req |-> vector(p, req), at |-> u8(p, at)]
      ELSE Malformed

(***************************************************************************)
(* Responses: status and records; the dimension a decision is limited by,  *)
(* 255 for none; the recall actions; the authority now in force.           *)
(***************************************************************************)
encode_response(r) ==
  <<r.ok>> \o put_list(r.message)
    \o <<IF r.limiting_dimension = NoValue THEN 255 ELSE r.limiting_dimension>>
    \o put_list(r.recall) \o <<r.epoch>>

decode_response(p) ==
  LET limit == AfterList(p, 1)
      epoch == AfterList(p, limit + 1)
  IN  IF epoch < Len(p) /\ StringOk(p, 1)
      THEN [ok |-> u8(p, 0), message |-> list(p, 1),
            limiting_dimension |-> IF u8(p, limit) = 255 THEN NoValue ELSE u8(p, limit),
            recall |-> list(p, limit + 1), epoch |-> u8(p, epoch)]
      ELSE Malformed
===============================================================================
