----------------------------- MODULE WireFrames -----------------------------
(***************************************************************************)
(* What the probes and user space say to each other: the frames            *)
(* crates/periskop-ebpf-object/src/wire.rs writes, the decoder             *)
(* crates/periskop-ebpf-loader/src/record.rs reads them with, and the seam *)
(* crates/periskop-network-sensor/src/kernel/loader.rs that makes events   *)
(* of them.  The two sides are built apart and share no code.              *)
(*                                                                         *)
(* A frame is a record of its header fields, its length in bytes and what  *)
(* its body holds.                                                         *)
(***************************************************************************)
EXTENDS DnsMessage, ClientHello

LayoutVersion == 1
HeaderBytes == 8
KeyBytes == 44
Kinds == {"connect", "volume", "close", "payload"}
BodyBytes == [connect |-> 48, volume |-> 24, close |-> 8]
PayloadHeadBytes == 16
Protocols == {"tcp", "udp"}

(***************************************************************************)
(* The writers.  layout: how the object at hand was built.                 *)
(***************************************************************************)

OurLayout == [version |-> LayoutVersion, reserved |-> 0, longer |-> 0,
              protocol |-> "tcp"]

\* header, key_bytes and the body of connect, volume and close.  The object knows
\* neither the namespace nor a duration, and says so in the flags.
Written(layout, kind, key, flags, body) ==
  [kind |-> kind, protocol |-> layout.protocol, flags |-> flags,
   version |-> layout.version, reserved |-> layout.reserved,
   declared |-> KeyBytes + BodyBytes[kind] + layout.longer,
   bytes |-> HeaderBytes + KeyBytes + BodyBytes[kind] + layout.longer,
   key |-> key, body |-> body]

\* A sample of a packet: its body has no fixed length.
WrittenSample(layout, key, flags, body) ==
  [kind |-> "payload", protocol |-> layout.protocol, flags |-> flags,
   version |-> layout.version, reserved |-> layout.reserved,
   declared |-> KeyBytes + PayloadHeadBytes + Len(body.sample),
   bytes |-> HeaderBytes + KeyBytes + PayloadHeadBytes + Len(body.sample),
   key |-> key, body |-> body]

(***************************************************************************)
(* RawEvent::decode                                                        *)
(***************************************************************************)

\* Rejects rather than repairs.
Decodable(frame) ==
  LET tail == frame.bytes - HeaderBytes - KeyBytes
  IN  /\ frame.version = LayoutVersion /\ frame.reserved = 0
      /\ frame.declared = frame.bytes - HeaderBytes
      /\ frame.protocol \in Protocols
      /\ frame.kind \in Kinds
      /\ IF frame.kind = "payload" THEN tail >= PayloadHeadBytes
                                   ELSE tail = BodyBytes[frame.kind]

(***************************************************************************)
(* kernel_event_from and facts_from                                        *)
(***************************************************************************)

\* What every event has; facts: the process, the handshake or the mappings.
Event(kind, frame) == [kind |-> kind, key |-> frame.key, conn |-> frame.body.conn,
                       at |-> frame.body.at, facts |-> None]

FactsFrom(frame) ==
  IF "payload_is_dns" \in frame.flags
    THEN Then(ParseResponse(frame.body.sample), LAMBDA read :
           [Event("answers", frame) EXCEPT !.facts = read.answers])
    ELSE Then(ParseClientHello(frame.body.sample), LAMBDA read :
           [Event("handshake", frame) EXCEPT !.facts = read.hello])

\* The event a frame is, or the cause it is refused for.
KernelEventFrom(frame) ==
  IF ~Decodable(frame) THEN Failed("record_undecodable")
  ELSE CASE frame.kind = "payload" -> FactsFrom(frame)
         [] frame.kind = "connect" -> [Event("connect", frame) EXCEPT
                                         !.facts = frame.body.process]
         [] OTHER                  -> Event(frame.kind, frame)
=============================================================================
