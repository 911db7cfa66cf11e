SPECIFICATION Spec
CONSTANTS
  Tasks = {1, 2}
  Layouts <- Vfork
  Numbers = {3, 4}
  Paths = {"/w/app", "/w", "/bin/app"}
  Projected = {"/w/app", "/w"}
  Long = {"/w/app", "/bin/app"}
  Inodes = {"elf", "script", "secret", "hidden", "pod"}
  Readable = {"elf", "script", "hidden", "pod"}
  Runnable = {"elf", "hidden", "pod", "secret"}
  Sources <- MCSources
  Pod <- MCPods
  Absent = "absent"
  MaxCalls = 2
  MaxEvents = 2
INVARIANTS
  ExecFindsItsFile
