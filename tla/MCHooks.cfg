SPECIFICATION MCSpec
CONSTANTS
  Threads = {t1, t2}
  Handles = {h1, h2}
  NoHandle = NoHandle
  Files = {cosave, other}
  Cosaves = {cosave}
  NoFile = NoFile
  FileSize = 1
  LastPosition = 2
  MaxRead = 2
  BatchTargets = 2
  BatchThreads = {bt1, bt2}
  Ours = Ours
  Slots = {"a", "b", "c"}
  PageOf <- MCPageOf
  Users = {"callbacks", "memory"}
  Plugins = {"p1", "p2"}
  Earlier = {"p0"}
  CallbackThreads = {"main", "other"}
  ThunkCount = 2
  HandleKinds = {"message"}
  MaxRegistered = 3
  Nobody = "nobody"
SYMMETRY Sym
VIEW View
INVARIANTS
  BuffersAreCurrent
  HooksAreWhole
  CallbacksLeadHome
PROPERTIES
  PlainFilesImplemented
