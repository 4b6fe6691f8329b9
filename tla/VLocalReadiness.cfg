SPECIFICATION GoLiveSpec
CONSTANTS
  Profiles <- MCProfiles
  Loose = {"panic_stop_drill", "live_attestation"}
  MaxStarts = 2
  MaxRestarts = 1
  RequireWebhook = FALSE
  RequireStream = FALSE
CHECK_DEADLOCK FALSE
PROPERTY ChecksRenew
