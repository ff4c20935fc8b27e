----------------------------- MODULE Conversion -----------------------------
(***************************************************************************)
(* The conversions of messages to protobuf and back                        *)
(* (juturna/remotizer/utils.py), for payloads of                           *)
(* juturna/payloads/_payloads.py. A payload is a record with a "type"; an  *)
(* array has its cells, flat, and its shape. The values in meta and in an  *)
(* ObjectPayload are records of a kind and, for containers, the values in  *)
(* them. A conversion that raises gives Raised.                            *)
(***************************************************************************)
EXTENDS Integers, Sequences, SequencesExt

Raised == [type |-> "raised"]
Raises(p) == p.type = "raised"

Val(k) == [kind |-> k, items |-> <<>>]
Container(k, s) == [kind |-> k, items |-> s]
Dropped == Val("dropped")

Product(shape) == FoldLeft(LAMBDA x, y : x * y, 1, shape)

-----------------------------------------------------------------------------
(***************************************************************************)
(* to_primitive(): what JSON has stays, numpy, dates and bytes become what *)
(* it has, anything else is dropped from the container it is in.           *)
(***************************************************************************)
Plain == {"none", "bool", "int", "float", "str"}
AsStr == {"date", "bytes"}

RECURSIVE ToPrimitive(_)
Kept(items) == SelectSeq([i \in DOMAIN items |-> ToPrimitive(items[i])],
                         LAMBDA v : v.kind # "dropped")
ToPrimitive(v) ==
  CASE v.kind \in Plain             -> v
    [] v.kind = "npfloat"           -> Val("float")
    [] v.kind = "decimal"           -> Val("float")
    [] v.kind \in AsStr             -> Val("str")
    [] v.kind \in {"list", "tuple"} -> Container("list", Kept(v.items))
    [] v.kind \in {"dict", "object"} -> Container("dict", Kept(v.items))
    [] OTHER                        -> Dropped

\* A protobuf Struct keeps numbers as doubles, and takes nothing but what JSON
\* has.
RECURSIVE InStruct(_)
InStruct(v) ==
  IF v.kind = "int" THEN Val("float")
  ELSE Container(v.kind, [i \in DOMAIN v.items |-> InStruct(v.items[i])])

RECURSIVE StructTakes(_)
StructTakes(v) ==
  /\ v.kind \in Plain \cup {"list", "tuple", "dict"}
  /\ \A i \in DOMAIN v.items : StructTakes(v.items[i])

\* What dict() of a Struct holds: containers remain messages of protobuf, which
\* to_primitive() does not know.
FromStruct(v) == IF v.kind \in Plain THEN v ELSE Val("proto")

-----------------------------------------------------------------------------
AudioToProto(a) == [type |-> "audio", cells |-> a.cells, shape |-> a.shape,
                    rate |-> a.rate, start |-> a.start]

ImageToProto(p) == [type |-> "image", cells |-> p.cells, width |-> p.width,
                    height |-> p.height, depth |-> p.depth]

ObjectToProto(p) ==
  IF \A i \in DOMAIN p.items : StructTakes(p.items[i])
  THEN [type |-> "object", items |-> [i \in DOMAIN p.items |-> InStruct(p.items[i])]]
  ELSE Raised

RECURSIVE PayloadToProto(_)
\* message_to_proto(): no message in a batch may raise.
MessageToProto(m) ==
  [id |-> m.id, version |-> m.version,
   meta |-> [i \in DOMAIN Kept(m.meta) |-> InStruct(Kept(m.meta)[i])],
   payload |-> PayloadToProto(m.payload)]

PayloadToProto(p) ==
  CASE p.type = "none"   -> p
    [] p.type = "audio"  -> AudioToProto(p)
    [] p.type = "image"  -> ImageToProto(p)
    [] p.type = "video"  -> [p EXCEPT !.frames =
                               [i \in DOMAIN @ |-> ImageToProto(@[i])]]
    [] p.type = "bytes"  -> p
    [] p.type = "object" -> ObjectToProto(p)
    [] p.type = "batch"  -> [p EXCEPT !.messages =
                               [i \in DOMAIN @ |-> MessageToProto(@[i])]]
    [] OTHER             -> Raised

-----------------------------------------------------------------------------
\* reshape(): as many cells as the shape asks for, -1 standing for what fits.
Reshape(cells, shape) ==
  LET known == Product(SelectSeq(shape, LAMBDA n : n # -1))
      whole == IF Contains(shape, -1) THEN known > 0 /\ Len(cells) % known = 0
                                      ELSE known = Len(cells)
      inferred == [i \in DOMAIN shape |-> IF shape[i] = -1
                                          THEN Len(cells) \div known ELSE shape[i]]
  IN IF whole THEN inferred ELSE <<>>

\* No audio format comes back.
AudioFromProto(q) == [type |-> "audio", cells |-> q.cells, shape |-> q.shape,
                      rate |-> q.rate, start |-> q.start, format |-> ""]

\* Mutant: width before height.
ImageTransposed(q) ==
  LET shape == IF q.depth = 1 THEN <<q.width, q.height>>
                              ELSE <<q.width, q.height, q.depth>>
      fits == Reshape(q.cells, shape)
  IN IF fits = <<>> THEN Raised
     ELSE [type |-> "image", cells |-> q.cells, shape |-> fits,
           width |-> q.width, height |-> q.height, depth |-> q.depth]

ImageFromProto(q) ==
  LET shape == IF q.depth = 1 THEN <<q.height, q.width>>
                              ELSE <<q.height, q.width, q.depth>>
      fits == Reshape(q.cells, shape)
  IN IF fits = <<>> THEN Raised
     ELSE [type |-> "image", cells |-> q.cells, shape |-> fits,
           width |-> q.width, height |-> q.height, depth |-> q.depth]

\* The constructors of VideoPayload and Batch add up sizes, which images and
\* protobuf messages do not have under the names asked for.
VideoFromProto(q) == IF q.frames = <<>> THEN q ELSE Raised
BatchFromProto(q) == IF q.messages = <<>> THEN q ELSE Raised

PayloadFromProto(q) ==
  CASE q.type = "audio" -> AudioFromProto(q)
    [] q.type = "image" -> ImageFromProto(q)
    [] q.type = "video" -> VideoFromProto(q)
    [] q.type = "batch" -> BatchFromProto(q)
    [] OTHER            -> q

\* deserialize_message()
MessageFromProto(q) ==
  [id |-> q.id, version |-> q.version,
   meta |-> [i \in DOMAIN q.meta |-> FromStruct(q.meta[i])],
   payload |-> PayloadFromProto(q.payload)]

\* One way of a message, and there and back, with what any of the conversions
\* raises.
Far(m) == MessageFromProto(MessageToProto(m))

ThereAndBack(m) ==
  IF \/ Raises(PayloadToProto(m.payload))
     \/ Raises(Far(m).payload)
     \/ Raises(Far(Far(m)).payload)
  THEN [m EXCEPT !.payload = Raised]
  ELSE Far(Far(m))

-----------------------------------------------------------------------------
(***************************************************************************)
(* Reference: what a receiver may expect of the payload that was sent.     *)
(***************************************************************************)
RECURSIVE JsonLike(_)
JsonLike(v) == IF v.kind = "int" THEN Val("float")
               ELSE [v EXCEPT !.items = [i \in DOMAIN @ |-> JsonLike(@[i])]]

Expected(p) ==
  CASE p.type = "audio"  -> [p EXCEPT !.format = ""]
    [] p.type = "object" -> [p EXCEPT !.items = [i \in DOMAIN @ |-> JsonLike(@[i])]]
    [] OTHER             -> p

\* Of the metadata, after one hop and another.
ExpectedMeta(meta) ==
  LET arrived == SelectSeq([i \in DOMAIN meta |-> ToPrimitive(meta[i])],
                           LAMBDA v : v.kind \in Plain)
  IN [i \in DOMAIN arrived |-> JsonLike(arrived[i])]

ImageWellFormed(p) ==
  p.type = "image" =>
    /\ p.shape[1] = p.height /\ p.shape[2] = p.width
    /\ IF Len(p.shape) = 2 THEN p.depth = 1
       ELSE Len(p.shape) = 3 /\ p.depth \in {p.shape[3], -1} \ {1}

\* A payload of the package, with the shape of an image that its fields tell and
\* in an object what JSON has.
WellFormed(p) ==
  /\ p.type # "custom"
  /\ p.type = "object" => \A i \in DOMAIN p.items : StructTakes(p.items[i])
  /\ ImageWellFormed(p)
=============================================================================
