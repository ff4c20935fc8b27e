----------------------------- MODULE MCBuiltins -----------------------------
(***************************************************************************)
(* Messages for a warp node, and what it should make of them.              *)
(***************************************************************************)
EXTENDS Builtins, Conversion

Msg(payload) ==
  [id |-> 1, version |-> 2, payload |-> payload,
   meta |-> <<Val("int"), Val("npfloat"), Val("opaque"),
              Container("dict", <<Val("str")>>)>>]

Image(shape, width, height, depth) ==
  [type |-> "image", cells |-> [i \in 1..Product(shape) |-> i], shape |-> shape,
   width |-> width, height |-> height, depth |-> depth]

Images == {Image(<<1, 2>>, 2, 1, 1), Image(<<1, 2, 3>>, 2, 1, 3),
           Image(<<1, 2, 3>>, 2, 1, -1), Image(<<1, 2, 3>>, 1, 2, -1),
           Image(<<1, 2, 3>>, 2, 1, 1)}

Payloads ==
  Images \cup
  {[type |-> "none"], [type |-> "bytes", cells |-> <<7>>], [type |-> "custom"],
   [type |-> "audio", cells |-> <<1, 2, 3, 4>>, shape |-> <<2, 2>>, rate |-> 8,
    start |-> 3, format |-> "s16"],
   [type |-> "object", items |-> <<Val("int"), Container("list", <<Val("int")>>)>>],
   [type |-> "object", items |-> <<Container("dict", <<Val("bytes")>>)>>]}

\* What a pipeline can have in a message.
PlainInputs == {Msg(p) : p \in Payloads}

\* A batch is what a node with a synchroniser gets.
BatchInputs ==
  {Msg([type |-> "batch", messages |-> <<Msg([type |-> "bytes", cells |-> <<7>>])>>])}

PlainExchange == [m \in PlainInputs |-> ThereAndBack(m)]
BatchExchange == [m \in BatchInputs |-> ThereAndBack(m)]

-----------------------------------------------------------------------------
\* What a warp node transmits is the message it was given, up to what the wire
\* format does not keep: audio comes without its format, numbers as floats, and
\* of the metadata only what is not nested.
RoundTrip ==
  /\ sent # NoMessage
  /\ WellFormed(sent.payload) /\ sent.payload.type \notin {"video", "batch"}
  => /\ answer.id = sent.id /\ answer.version = sent.version
     /\ answer.payload = Expected(sent.payload)
     /\ answer.meta = ExpectedMeta(sent.meta)

\* Every type of payload comes back as itself, which is what the docstring of
\* deserialize_message() says.
EveryTypeReturns == answer.payload.type = sent.payload.type
=============================================================================
