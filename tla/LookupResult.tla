---------------------------- MODULE LookupResult ----------------------------
(***************************************************************************)
(* elliptics::lookup_result (src/src/lookup_result.cpp): the decoder of one *)
(* entry of an elliptics lookup reply.  host(), port(), addr(), path() and  *)
(* full_path() compute their answer on the first call and memoize it in a   *)
(* mutable boost::optional member; group() and status() read the entry on  *)
(* every call.  The reverse-DNS answer behind host() is environment state  *)
(* that may change, or fail, between two calls on the same object.          *)
(*                                                                         *)
(* The file also holds file_backend_get_dir, the hex directory name of an  *)
(* id, modelled as a pure operator over ids of IdBytes bytes.               *)
(***************************************************************************)
EXTENDS Integers, Sequences

CONSTANTS Ips,        \* storage node addresses
          Ports,      \* their ports
          Names,      \* host names reverse DNS may answer
          DnsFail,    \* getnameinfo() != 0
          SignPorts,  \* values of m_sign_port; "" is the empty string
          Groups, Statuses, Files, Offsets, Sizes,
          IdBytes,    \* DNET_ID_SIZE, scaled down
          Bytes,      \* byte values an id is made of
          None        \* an empty boost::optional member


Accessors == {"host", "port", "addr", "path", "full_path", "group", "status"}
Memoized == {"host", "port", "addr", "path", "full_path"}

Ids == [1..IdBytes -> Bytes]

(* A lookup_result_entry: storage address, command (key id, group id,     *)
(* status) and the dnet_file_info with the file path trailing it.          *)
Entries == [ip: Ips, port: Ports, id: Ids, group: Groups, status: Statuses,
            file: Files, offset: Offsets, size: Sizes]

VARIABLES entry,     \* m_entry
          signPort,  \* m_sign_port
          dns,       \* what getnameinfo would answer now for entry's address
          m,         \* m_host, m_port, m_addr, m_path, m_full_path
          out        \* the values each accessor has returned so far

vars == <<entry, signPort, dns, m, out>>

(* lookup_result::lookup_result: nothing is computed yet. *)
Init == /\ entry \in Entries
        /\ signPort \in SignPorts
        /\ dns \in Names \cup {DnsFail}
        /\ m = [f \in Memoized |-> None]
        /\ out = [f \in Accessors |-> {}]

(* A call of an accessor that memoizes: v is computed only on a miss. *)
Memo(f, v) ==
    LET val == IF m[f] = None THEN v ELSE m[f]
    IN  /\ m' = [m EXCEPT ![f] = val]
        /\ out' = [out EXCEPT ![f] = @ \cup {val}]

(* A call of an accessor that reads the entry every time. *)
Read(f, v) == /\ out' = [out EXCEPT ![f] = @ \cup {v}]
              /\ UNCHANGED m

(* oss << hbuf; if (!m_sign_port.empty()) oss << ':' << m_sign_port; *)
HostString(name) == IF signPort = "" THEN <<name>> ELSE <<name, signPort>>

(* host(): on a miss getnameinfo either fails, and the call throws without *)
(* memoizing anything, or its name is formatted and memoized.              *)
HostRecompute ==
    IF dns = DnsFail THEN UNCHANGED <<m, out>>
    ELSE /\ m' = [m EXCEPT !.host = HostString(dns)]
         /\ out' = [out EXCEPT !.host = @ \cup {HostString(dns)}]
HostFallback ==
    IF m.host = None /\ dns = DnsFail THEN Memo("host", <<entry.ip>>)
    ELSE Memo("host", HostString(dns))
Host ==
    IF m.host = None /\ dns = DnsFail THEN UNCHANGED <<m, out>>
    ELSE Memo("host", HostString(dns))

(* port(): dnet_server_convert_port of the storage address. *)
Port == Memo("port", entry.port)

(* addr(): dnet_server_convert_dnet_addr_raw, "ip:port". *)
Addr == Memo("addr", <<entry.ip, entry.port>>)

(* path(): file_path() << ':' << info->offset << ':' << info->size. *)
Path == Memo("path", <<entry.file, entry.offset, entry.size>>)

(* full_path(): the C string trailing the dnet_file_info. *)
FullPath == Memo("full_path", entry.file)

Group == Read("group", entry.group)
Status == Read("status", entry.status)

(* The environment: the reverse-DNS answer for the address changes. *)
DnsChange == /\ dns' \in (Names \cup {DnsFail}) \ {dns}
             /\ UNCHANGED <<m, out>>

Next == /\ \/ /\ \/ Host \/ Port \/ Addr \/ Path \/ FullPath \/ Group \/ Status
              /\ UNCHANGED dns
           \/ DnsChange
        /\ UNCHANGED <<entry, signPort>>

Spec == Init /\ [][Next]_vars

(* Besides the types: host() only ever answers a resolved name, never the *)
(* numeric address (spec 4.2: no fallback when reverse resolution fails). *)
TypeOK ==
    /\ entry \in Entries
    /\ signPort \in SignPorts
    /\ dns \in Names \cup {DnsFail}
    /\ m.host \in {None} \cup {HostString(n) : n \in Names}
    /\ out.host \subseteq {HostString(n) : n \in Names}

(* host() returns the same string on every call of one lookup_result,     *)
(* even when reverse DNS changes or fails between the calls; the XML of    *)
(* req_download_info and any other user of the object see one host.       *)
HostStable == \A f \in Accessors : \A v, w \in out[f] : v = w

(***************************************************************************)
(* file_backend_get_dir(id, bit_num, dst).                                *)
(***************************************************************************)
Garbage == -2   \* a byte of dst never written
Nul == -1       \* '\0'

(* The two hex digits of each of the first len bytes of id ("%02x"). *)
HexDigits(id, len) ==
    [i \in 1..2 * len |-> IF i % 2 = 1 THEN id[(i + 1) \div 2] \div 16
                                        ELSE id[i \div 2] % 16]

(* dnet_dump_id_len_raw: sprintf("%02x") of min(len, DNET_ID_SIZE) bytes  *)
(* into dst, each sprintf leaving its '\0' after its two digits.          *)
DumpIdLenRaw(id, len, dst) ==
    LET n == IF len < IdBytes THEN len ELSE IdBytes
        d == HexDigits(id, n)
    IN  [i \in DOMAIN dst |-> IF i <= 2 * n THEN d[i]
                              ELSE IF i = 2 * n + 1 /\ n > 0 THEN Nul
                              ELSE dst[i]]

(* The C string at the start of a buffer: everything before the first NUL. *)
RECURSIVE CString(_)
CString(buf) == IF buf = <<>> \/ Head(buf) = Nul THEN <<>>
                ELSE <<Head(buf)>> \o CString(Tail(buf))

DumpLenTruncating(bitNum) == bitNum \div 8
DumpLen(bitNum) == (bitNum + 7) \div 8

(* res[bit_num / 4] = '\0' on the dumped buffer. *)
FileBackendGetDir(id, bitNum) ==
    LET dst == [i \in 1..2 * IdBytes + 1 |-> Garbage]
        res == DumpIdLenRaw(id, DumpLen(bitNum), dst)
    IN  CString([res EXCEPT ![bitNum \div 4 + 1] = Nul])

BitNums == 0..8 * IdBytes

(* The directory of the entry's id is the first bit_num/4 hex digits of  *)
(* the id: (bit_num + 7) / 8 bytes are dumped, enough for every digit     *)
(* kept, and the cut at bit_num / 4 rounds down to whole digits.          *)
DirIsTopDigits ==
    \A b \in BitNums :
        FileBackendGetDir(entry.id, b) = SubSeq(HexDigits(entry.id, IdBytes), 1, b \div 4)
=============================================================================
