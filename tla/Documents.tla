----------------------------- MODULE Documents -----------------------------
(***************************************************************************)
(* A document on its way from a writer to a reader: the durable container, *)
(* or a frame of the control protocol.  It may be damaged on the medium,   *)
(* and it may have been written by another build, whose envelope is        *)
(* consistent but whose header or payload is not what this build writes.   *)
(*                                                                         *)
(* The checksums are ideal: a checksum is the value it is computed from.   *)
(***************************************************************************)
EXTENDS Wire

CONSTANTS
  Values,        \* for each kind of document the values that are written
  Templates,     \* for each kind the value whose document is tampered with
  UnitValues     \* for each width the values a unit may be replaced by

VARIABLES
  kind,          \* the kind of document
  value,         \* what the writer was given
  doc,           \* the document, or Absent
  origin,        \* what happened to it on the way
  answer         \* what the reader returned, or Absent

vars == <<kind, value, doc, origin, answer>>

Kinds == DOMAIN Values

----------------------------------------------------------------------------
(* Writing and reading a document. *)

\* encode_persisted_state and encode_query_response check bounds, the former
\* also every record and profile.
Writable(k, v) ==
  /\ k = "state" =>
       /\ Len(v.records) <= ListBound /\ Len(v.profiles) <= ListBound
       /\ Len(v.devices) <= ListBound /\ Len(v.publishers) <= ListBound
       /\ \A r \in ToSet(v.records) : RecordValid(r)
       /\ \A p \in ToSet(v.profiles) : ProfileValid(p)
  /\ k = "query_response" => Len(v.ports) <= ListBound
  /\ Fits(Written(k, v))

\* The header: type stands for the type of a frame and for the header size of
\* the container; only a frame has reserved bits.
Header(k, payload) ==
  [magic |-> IF k = "state" THEN "container" ELSE "frame", version |-> 1, type |-> k,
   reserved |-> 0, length |-> Len(payload), crc |-> payload]
Sealed(header, payload) == [header |-> header, sum |-> header, payload |-> payload]
Encode(k, payload) == Sealed(Header(k, payload), payload)

\* Mutant: the payload is not compared with its checksum.
OpensUnchecked(k, d) ==
  /\ d.header.magic = Header(k, << >>).magic /\ d.sum = d.header
  /\ d.header.version = 1 /\ d.header.type \in Kinds /\ d.header.reserved = 0
  /\ d.header.length = Len(d.payload)
\* decode_frame, and the first half of decode_persisted_state.
Opens(k, d) ==
  /\ d.header.magic = Header(k, << >>).magic /\ d.sum = d.header
  /\ d.header.version = 1 /\ d.header.type \in Kinds /\ d.header.reserved = 0
  /\ d.header.length = Len(d.payload) /\ d.header.crc = d.payload
Decode(k, d) == IF Opens(k, d) THEN Decoded(k, d.payload) ELSE Failure

----------------------------------------------------------------------------

Init ==
  /\ kind \in Kinds
  /\ value = Absent /\ doc = Absent /\ origin = "none" /\ answer = Absent

Write(v) ==
  /\ Writable(kind, v)
  /\ value' = v /\ doc' = Encode(kind, Written(kind, v)) /\ origin' = "intact"
  /\ UNCHANGED <<kind, answer>>

RefuseToWrite(v) ==
  /\ ~Writable(kind, v)
  /\ value' = v /\ origin' = "refused"
  /\ UNCHANGED <<kind, doc, answer>>

Tampered(how, d) ==
  /\ d # doc
  /\ doc' = d /\ origin' = how
  /\ UNCHANGED <<kind, value, answer>>
Other(i, v) == [doc.payload EXCEPT ![i].value = v]
Prefix(n) == SubSeq(doc.payload, 1, n)
Unknown(field) ==
  [magic |-> "", version |-> 2, type |-> "", reserved |-> IF kind = "state" THEN 0 ELSE 1,
   length |-> Len(doc.payload) + 1, crc |-> << >>][field]

\* On the medium the end of the document is lost or one of its units changes.
LoseTail(n) == Tampered("damaged", [doc EXCEPT !.payload = Prefix(n)])
DamageUnit(i, v) == Tampered("damaged", [doc EXCEPT !.payload = Other(i, v)])
DamageHeader(field) == Tampered("damaged", [doc EXCEPT !.header[field] = Unknown(field)])
\* Another build seals something else in a consistent envelope.
OmitTail(n) == Tampered("short", Encode(kind, Prefix(n)))
AddTail == Tampered("long", Encode(kind, Append(doc.payload, Unit("u8", 0))))
ReplaceUnit(i, v) == Tampered("foreign", Encode(kind, Other(i, v)))
ReplaceHeader(field) ==
  Tampered("unknown", Sealed([doc.header EXCEPT ![field] = Unknown(field)], doc.payload))

Receive ==
  /\ doc # Absent /\ answer = Absent
  /\ answer' = Decode(kind, doc)
  /\ UNCHANGED <<kind, value, doc, origin>>

Replaceable == {i \in DOMAIN doc.payload : doc.payload[i].width \in DOMAIN UnitValues}
\* Only the document of a template is tampered with.
Tamper ==
  /\ origin = "intact" /\ answer = Absent /\ value = Templates[kind]
  /\ \/ \E n \in 0..(Len(doc.payload) - 1) : LoseTail(n) \/ OmitTail(n)
     \/ \E i \in Replaceable : \E v \in UnitValues[doc.payload[i].width] :
          DamageUnit(i, v) \/ ReplaceUnit(i, v)
     \/ \E field \in DOMAIN doc.header : DamageHeader(field) \/ ReplaceHeader(field)
     \/ AddTail

Next ==
  \/ origin = "none" /\ \E v \in Values[kind] : Write(v) \/ RefuseToWrite(v)
  \/ Tamper
  \/ Receive

Spec == Init /\ [][Next]_vars

----------------------------------------------------------------------------
(* Properties. *)

\* What the types and the checks of the engine guarantee of a value before it
\* is written; of a profile only what ProfileRegistry::define checks.
RECURSIVE Sound(_, _)
Sound(t, v) ==
  CASE t = "profile_configuration" -> ProfileConfigurationValid(v)
    [] t \in DOMAIN Writers \ {"profile_configuration"} ->
         /\ Acceptable(t, v)
         /\ \A i \in DOMAIN Writers[t] : Sound(Writers[t][i][1], v[Writers[t][i][2]])
    [] t \in DOMAIN Optional -> v = Absent \/ Sound(Optional[t], v)
    [] t \in DOMAIN ListOf -> Len(v) <= ListBound /\ \A x \in ToSet(v) : Sound(ListOf[t], x)
    [] t = "rate" -> RateFrom(v) # 0
    [] t = "rate0" -> v = 0 \/ RateFrom(v) # 0
    [] t = "mtu" -> v \in MinMtu..MaxMtu
    [] t = "id" -> v \notin MalformedIds
    [] t = "hex" -> v \in Digests
    [] OTHER -> TRUE

\* A profile that carries an MTU it does not specify.
CarriesStrayMtu(v) ==
  /\ "profiles" \in DOMAIN v
  /\ \E p \in ToSet(v.profiles) : ~p.configuration.specifies_mtu /\ p.configuration.mtu # 0

\* Whatever the writers put out the readers take in again, unit for unit and
\* field for field, with one exception: write_profile_configuration writes an
\* MTU that is not specified and read_profile_configuration refuses it, so a
\* container with such a profile is written and never loaded again.
RoundTrip ==
  answer # Absent /\ origin = "intact" /\ Sound(kind, value) =>
    IF CarriesStrayMtu(value) THEN ~answer.ok
    ELSE answer = Success(value, << >>)

\* Whatever a reader accepts, from whichever build, is a value this build
\* could have written, and writing it gives the very units that were read:
\* no two documents mean the same (the flags and enumerations of ByteReader
\* and the readers' validation).
Canonical ==
  answer # Absent /\ answer.ok =>
    /\ Sound(kind, answer.value) /\ Fits(Written(kind, answer.value))
    /\ Written(kind, answer.value) \o answer.rest = doc.payload

\* No reader mistakes the beginning of a document for a document, and the
\* container, a hello, a mutation and a query response must end where they
\* ought to.
PartsAreRefused ==
  \/ answer = Absent \/ ~answer.ok
  \/ origin # "short" /\ ~(origin = "long" /\ kind \in {"state", "hello", "mutation", "query_response"})

\* Damage on the medium and headers of another version, type or size never
\* get as far as the payload.
DamageIsRefused ==
  answer # Absent /\ origin \in {"damaged", "unknown"} => ~answer.ok
=============================================================================
