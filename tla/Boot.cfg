SPECIFICATION Spec
CONSTANTS
  rootfs_a = rootfs_a
  rootfs_b = rootfs_b
  Slot <- BothSlots
  MAX_FAILED_HEALTH_CHECKS = 3
  MaxFailed = 4
INVARIANT ContainersOnlyAfterPrivacy
PROPERTY RollsBackOnce
