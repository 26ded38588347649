SPECIFICATION Spec
CONSTANTS
  Emails = {"ann"}
  Roles = {"admin", "viewer"}
  Findings = {"f1", "f2"}
  VendorOf <- MCVendorOf
  Suggestions <- MCSuggestions
  Lines = {"l1", "l2", "l3"}
  Similarity <- MCSimilarity
  SimilarEnough = 60
  Meanings = {"timeout"}
  Handlers = {h1, h2}
  None = None
  RegisterApart = TRUE
  Workloads <- MCWorkloads
  MaxFaults = 1
INVARIANTS TypeOK ApprovalComesFirst ApprovalRecorded ConfirmedTeaches SuggestionIsHuman OneAccountPerEmail
\* All requests have been served.
CHECK_DEADLOCK FALSE
