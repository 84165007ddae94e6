\* The CUDA engine with its runtime, and the CPU's; two sources, two attempts.
CONSTANTS
  Backends = {"cuda", "vulkan", "cpu"}
  Wanted = {"cuda", "vulkan", "cpu"}
  Pressable = {"cpu"}
  Modular = {"cuda", "vulkan"}
  NeedsCudart = {"cuda"}
  SilentFallback = {"vulkan"}
  Cpu = "cpu"
  Vulkan = "vulkan"
  Cudart = "cudart"
  Attempts = 2
  MaxFaults = 2
  MaxPresses = 1
  NoZip = NoZip
SPECIFICATION InstallSpec
INVARIANTS
  ArchiveIsWhole
  RestartsIntoUsable
PROPERTIES
  InstallConverges
