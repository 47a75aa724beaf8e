SPECIFICATION Spec
CONSTANTS
  data = data
  spool = spool
  audit = audit
  volatile = volatile
  Domain <- AllDomains
  CRYPTO_ERASABLE <- ErasableDomains
  None = None
  MaxChain = 3
  MaxFaults = 2
INVARIANTS ReceiptsAreTrue OneReceiptPerErasure
