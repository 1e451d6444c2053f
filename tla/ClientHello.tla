---------------------------- MODULE ClientHello ----------------------------
(***************************************************************************)
(* The reader of TLS handshakes,                                           *)
(* crates/periskop-network-sensor/src/parse/tls.rs: the first packet of a  *)
(* connection names a server, hides the name, offers none, or cannot be    *)
(* told.                                                                   *)
(*                                                                         *)
(* A sample is a sequence of cells: the record header, the hello and its   *)
(* fixed fields, the length of the extension list, and for an extension    *)
(* its header and its data.  It may end before any cell, and lengths are   *)
(* counted in cells.  A host name is a number; 0 stands for what no report *)
(* may carry as one: a literal address, an empty or an overlong label.     *)
(***************************************************************************)
EXTENDS NameMap

\* The cells.
RecordHeader(type, length) == [form |-> "record", type |-> type, length |-> length]
HelloHeader(type, length) == [form |-> "hello", type |-> type, length |-> length]
FixedFields == [form |-> "fixed"]
ExtensionsLength(length) == [form |-> "extensions", length |-> length]
Extension(kind, length) == [form |-> "extension", kind |-> kind, length |-> length]
ServerNames(list) == [form |-> "names", list |-> list]
BrokenList == [form |-> "names", list |-> None]
OtherData == [form |-> "other"]

(***************************************************************************)
(* The extensions                                                          *)
(***************************************************************************)

\* read_server_name: the first host name of the list, and whether it is one.
FirstHost(hosts) ==
  CASE hosts = <<>> -> [name |-> None]
    [] hosts # <<>> /\ Head(hosts).name = 0 -> Failed("tls_malformed_server_name")
    [] OTHER -> [name |-> Head(hosts).name]
ServerNameIn(data) ==
  CASE data = <<>> -> [name |-> None]
    [] data # <<>> /\ (data[1].form # "names" \/ data[1].list = None) ->
         Failed("tls_malformed_server_name")
    [] OTHER ->
         FirstHost(SelectSeq(data[1].list, LAMBDA entry : entry.type = "host_name"))

\* One extension of scan_extensions: the first name counts.
ReadExtension(kind, data, scan) ==
  CASE kind = "server_name" /\ scan.name = None ->
         Then(ServerNameIn(data), LAMBDA read : [scan EXCEPT !.name = read.name])
    [] kind = "encrypted_client_hello" -> [scan EXCEPT !.encrypted = TRUE]
    [] OTHER -> scan

\* scan_extensions.  The header of a second record, where a hello is split over two,
\* is read as an extension longer than what follows it.
NothingYet == [name |-> None, encrypted |-> FALSE, complete |-> TRUE]
Scans == [name : Nat \cup {None}, encrypted : BOOLEAN, complete : BOOLEAN]
ScanExtensions(block) ==
  LET From[at \in Nat, scan \in Scans] ==
        CASE at > Len(block) -> scan
          [] at <= Len(block) /\ (\/ block[at].form # "extension"
                                  \/ Len(block) - at < block[at].length) ->
               [scan EXCEPT !.complete = FALSE]
          [] OTHER ->
               LET behind == at + block[at].length
               IN  Then(ReadExtension(block[at].kind, SubSeq(block, at + 1, behind), scan),
                        LAMBDA next : From[behind + 1, next])
  IN  From[1, NothingYet]

\* scan_hello.  A hello without an extension list offers no name, if it is all there.
ScanBlock(length, available) ==
  Then(ScanExtensions(SubSeq(available, 1, Smaller(length, Len(available)))),
       LAMBDA scan : [scan EXCEPT !.complete = @ /\ Len(available) >= length])
ScanHello(body) ==
  IF body = <<>> THEN Failed("tls_truncated")
  ELSE IF body[1].type # "client_hello" THEN Failed("tls_not_client_hello")
  ELSE CASE Len(body) = 1 -> Failed("tls_truncated")
         [] Len(body) = 2 -> [NothingYet EXCEPT !.complete = Len(body) >= body[1].length + 1]
         [] OTHER -> ScanBlock(body[3].length, SubSeq(body, 4, Len(body)))

(***************************************************************************)
(* parse_client_hello                                                      *)
(***************************************************************************)

\* Mutant: a name that was read is believed before the end of the hello was seen.
FactsOfAnyPart(scan, whole) ==
  IF scan.encrypted THEN [hello |-> EncryptedHello]
  ELSE IF scan.name # None THEN [hello |-> NamedHello(scan.name)]
  ELSE IF ~(whole /\ scan.complete) THEN Failed("tls_truncated")
  ELSE [hello |-> NamelessHello]

\* An encrypted hello is one however much of it was seen; a name counts, and so does
\* its absence, only when the list was seen to its end.
FactsOf(scan, whole) ==
  IF scan.encrypted THEN [hello |-> EncryptedHello]
  ELSE IF ~(whole /\ scan.complete) THEN Failed("tls_truncated")
  ELSE IF scan.name # None THEN [hello |-> NamedHello(scan.name)]
  ELSE [hello |-> NamelessHello]

ParseClientHello(sample) ==
  IF sample = <<>> THEN Failed("tls_truncated")
  ELSE IF sample[1].type # "handshake" THEN Failed("tls_not_handshake")
  ELSE IF sample[1].length = 0 THEN Failed("tls_malformed")
  ELSE Then(ScanHello(Tail(sample)), LAMBDA scan :
         FactsOf(scan, Len(sample) > sample[1].length))
=============================================================================
