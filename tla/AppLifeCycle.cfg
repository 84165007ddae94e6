\* An NVIDIA card, CUDA delivered, Vulkan downloaded, no CPU backend; three launches.
CONSTANTS
  Native = "cuda"
  Capable = {"cuda", "vulkan", "cpu"}
  Bundled = {"cuda"}
  Downloaded = {"cuda", "vulkan"}
  Choices = {"vulkan", "cuda"}
  Launches = 3
  Replies = 2
  Nothing = "none"
SPECIFICATION Spec
INVARIANTS
  FailedSwitchIsUndone
  QuietBeforeClose
PROPERTIES
  ExitsEnd
  RestartIsFollowed
CHECK_DEADLOCK FALSE
