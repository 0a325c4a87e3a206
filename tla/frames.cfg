CONSTANTS
  boot = boot
  shell = shell
  driver = driver
  Clients <- MCClients
  Main <- boot
  BitmapPages = 6
  TotalPages = 5
  KernelStart = 1
  KernelEnd = 2
  Ramdisk <- MCRamdisk
  MaxRun = 2
  Interruptible = FALSE
SPECIFICATION Spec
SYMMETRY IrqSymmetry
INVARIANTS TypeOK Exclusive KernelKept SwapAccounting SearchIsComplete
PROPERTIES HandedOutFree ImplementsPool
CHECK_DEADLOCK FALSE
