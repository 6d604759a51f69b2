---------------------------- MODULE LeaseRecord ----------------------------
(***************************************************************************)
(* The records of a lease log and their wire form (lease/record.go).       *)
(*                                                                         *)
(* A record is a function of the broker's metadata (offset, ts) and of the *)
(* message value.  Strings and JSON are abstracted to records; what the    *)
(* conversion does to the data is kept: a TTL crosses the wire as a whole  *)
(* number of milliseconds, and a value of an unknown version or kind, or   *)
(* without a holder, does not decode.                                      *)
(***************************************************************************)
EXTENDS Integers

CONSTANTS NoHolder,  \* the empty holder: the lease is free
          MsUnit     \* how many units of model time make one millisecond

ASSUME MsUnitAssumption == MsUnit \in Nat \ {0}

Claim   == "claim"
Renew   == "renew"
Release == "release"
Kind    == {Claim, Renew, Release}

WireVersion == 1

(* The identity of the term a record belongs to or, for a claim, would     *)
(* start: the claim's own offset is the epoch.                             *)
term(r) == <<r.holder, IF r.kind = Claim THEN r.offset ELSE r.epoch>>

(* time.Duration.Milliseconds truncates: what is left of a TTL on the      *)
(* other side of the wire.                                                 *)
WireTTL(ttl) == (ttl \div MsUnit) * MsUnit

(* The value of a message.  Only a renew or a release names an epoch.      *)
EncodeValue(r) ==
  [version |-> WireVersion,
   kind    |-> r.kind,
   holder  |-> r.holder,
   epoch   |-> IF r.kind = Claim THEN 0 ELSE r.epoch,
   ttlMs   |-> r.ttl \div MsUnit]

(* Whether DecodeValue returns a record rather than an error.              *)
Decodes(value) ==
  /\ value.version = WireVersion
  /\ value.kind \in Kind
  /\ value.holder # NoHolder

(* The record of a value that decodes, with the metadata agent.record      *)
(* fills in.                                                               *)
DecodeValue(value, offset, ts) ==
  [offset |-> offset,
   ts     |-> ts,
   kind   |-> value.kind,
   holder |-> value.holder,
   epoch  |-> IF value.kind = Claim THEN 0 ELSE value.epoch,
   ttl    |-> value.ttlMs * MsUnit]
=============================================================================
