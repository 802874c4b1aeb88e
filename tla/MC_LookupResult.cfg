CONSTANTS
  Ips = {i1}
  Ports = {1}
  Names = {h1, h2}
  DnsFail = DnsFail
  SignPorts = {"", "s"}
  Groups = {1}
  Statuses = {s_ok, s_enoent}
  Files = {f1}
  Offsets = {0}
  Sizes = {1}
  IdBytes = 2
  Bytes = {0, 31}
  None = None
SPECIFICATION Spec
INVARIANTS TypeOK HostStable DirIsTopDigits
