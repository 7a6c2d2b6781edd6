SPECIFICATION SafeSpec
CONSTANTS
  Parts = {"calls", "sessions", "administration", "realtime", "worker", "adapter", "api", "readiness", "templates", "intents", "configuration", "organization", "transactions", "migrations", "delivery", "ai", "source", "forms", "workflow", "workforce", "polling", "webhooks", "resources", "http", "workbench", "local", "operations", "directory", "dialogs", "editors", "passwords", "drafts", "harness", "employments", "statements", "pool", "bindings", "telemetry"}
  Calls = {c1, c2, c3}
  Limit = 1
  MaxQueue = 1
  FailureThreshold = 2
  HalfOpenMaxCalls = 1
  MaxAttempts = 2
  Requests = {r1, r2}
  Credentials = {cred1, cred2, cred3}
  pw1 = pw1
  Passwords = {pw1, pw2}
  MaxRevision = 3
  Missing = Missing
  adminA = adminA
  adminB = adminB
  userC = userC
  Accounts = {adminA, adminB, userC}
  Administrators = {adminA, adminB}
  Administering = {m1, m2}
  Operations = {op1, op2}
  Commands <- MCCommands
  MaxAccountRev = 3
  Connections = {k1, k2}
  MaxPerSession = 1
  MaxStateVersion = 2
  Handlers = {h1, h2}
  MaxStarts = 2
  Bindings = {b1, b2}
  Deliveries = {d1, d2}
  Concurrency = 1
  MaxApiStarts = 2
  Capabilities = {p1, p2}
  KeptWhenDown = {p2}
  MaxGeneration = 4
  text1 = text1
  activation1 = activation1
  Texts = {text1}
  Drafting = {e1, e2}
  Activations = {activation1, activation2}
  Publishers = {w1, w2}
  Submitters = {s1, s2}
  IntentKeys = {i1}
  Fingerprints = {f1, f2}
  Recipients = {n1, n2}
  MaxVersion = 2
  MaxDraftRevision = 2
  ConfigurationRequests = {q1, q2}
  cfg1 = cfg1
  cfg2 = cfg2
  cfg3 = cfg3
  cfg4 = cfg4
  ConfigurationOperations = {cfg1, cfg2, cfg3, cfg4}
  ConfigurationCommands <- MCConfigurationCommands
  codeX = codeX
  codeY = codeY
  Codes = {codeX, codeY}
  act1 = act1
  act2 = act2
  ActivationIds = {act1, act2}
  scope1 = scope1
  Scopes = {scope1}
  Horizon = 3
  MaxRelease = 2
  unit1 = unit1
  unit2 = unit2
  Units = {unit1, unit2}
  Root = Root
  place1 = place1
  place2 = place2
  place3 = place3
  place4 = place4
  place5 = place5
  PlacementIds = {place1, place2, place3, place4, place5}
  OrganizationRequests = {g1, g2}
  org1 = org1
  org2 = org2
  org3 = org3
  org4 = org4
  org5 = org5
  OrganizationOperations = {org1, org2, org3, org4, org5}
  OrganizationCommands <- MCOrganizationCommands
  EndOfTime = 3
  older = older
  newer = newer
  forked = forked
  careless = careless
  sum1 = sum1
  sum2 = sum2
  sum3 = sum3
  otherSum1 = otherSum1
  otherSum3 = otherSum3
  file1 = file1
  file2 = file2
  Transactions = {t1}
  MaxStatements = 2
  Runners = {older, newer, forked, careless}
  MigrationVersions = {1, 2, 3}
  Checksums = {sum1, sum2, sum3, otherSum1, otherSum3}
  FileNames = {file1, file2}
  ReviewedChecksums <- MCReviewedChecksums
  ApplicationVersions <- MCApplicationVersions
  Catalogue <- MCCatalogue
  EvidenceFrom = 2
  NoRunner = NoRunner
  Messages = {j1}
  Jobs = {j1}
  Senders = {sender1}
  Tokens = {token1, token2}
  NoToken = NoToken
  NoMessage = NoMessage
  BatchSize = 1
  Lease = 1
  Backoff <- MCBackoff
  PublishAttempts = 2
  Prints = {print1, print2}
  Unsupported = {print2}
  TruePrint = print1
  Workers = {worker1}
  NoCopy = NoCopy
  MaxCopies = 2
  DeliveryAttempts = 2
  AiOperations = {ai1}
  AiInputs = {input1, input2}
  Confirmations = {conf1, conf2}
  Decisions = {accept, reject}
  NoInput = NoInput
  MaxLinks = 3
  MaxSourceStarts = 2
  form1 = form1
  form2 = form2
  form3 = form3
  form4 = form4
  schemaA = schemaA
  schemaB = schemaB
  FormRequests = {fr1, fr2}
  FormReaders = {fr1}
  FormOperations = {form1, form2, form3, form4}
  FormCommands <- MCFormCommands
  Contents = {schemaA, schemaB}
  NoContent = NoContent
  MaxFormRevision = 2
  MaxFormReleases = 2
  flow1 = flow1
  flow2 = flow2
  flow3 = flow3
  workerA = workerA
  workerB = workerB
  WorkflowRequests = {wr1, wr2}
  WorkflowKeys = {flow1, flow2, flow3}
  WorkflowCommands <- MCWorkflowCommands
  Assignees = {workerA, workerB}
  NoAssignee = NoAssignee
  staffA = staffA
  staffB = staffB
  name1 = name1
  name2 = name2
  phone3 = phone3
  Staff = {staffA, staffB}
  Editors = {ed1, ed2}
  EditCommands <- MCEditCommands
  Usernames = {name1, name2}
  Phones = {name2, phone3}
  NoValue = NoValue
  Nobody = Nobody
  MaxStaffRevision = 2
  MaxAssignments = 2
  MaxMounts = 2
  eventId = eventId
  nonce1 = nonce1
  nonce2 = nonce2
  WebhookMessages <- MCWebhookMessages
  WebhookIds = {eventId, nonce1, nonce2}
  Acceptances = {acc1, acc2}
  Skew = 1
  Retention = 4
  MaxDelay = 1
  WebhookHorizon = 6
  httpA = httpA
  httpB = httpB
  ck1 = ck1
  ck2 = ck2
  key1 = key1
  HttpRequestIds = {httpA, httpB}
  Cookies = {ck1, ck2}
  NoCookie = NoCookie
  AskedTogether <- MCAsked
  MaxSignIns = 2
  sh1 = sh1
  sh2 = sh2
  Shells = {sh1, sh2}
  Asks <- MCAsks
  MaxDrawn = 4
  ask1 = ask1
  ask2 = ask2
  OperationIds = {ask1, ask2}
  OperationKinds <- MCOperationKinds
  MaxOperationTime = 1
  topDep = topDep
  depA = depA
  depB = depB
  post1 = post1
  post2 = post2
  dn1 = dn1
  dn2 = dn2
  do1 = do1
  do2 = do2
  do3 = do3
  do4 = do4
  TopLevel = TopLevel
  KeepParent = KeepParent
  Entries = {topDep, depA, depB, post1, post2}
  EntryNames = {dn1, dn2}
  DirectoryRequests = {dr1, dr2}
  DirectoryOperations = {do1, do2, do3, do4}
  DirectoryCommands <- MCDirectoryCommands
  FirstEntries <- MCFirstEntries
  MaxEntryRevision = 2
  People = {ad1, ad2}
  DialogRows = {dialog1}
  Templates = {tpl1}
  EditTexts = {ta, tb}
  Fields = {fd1, fd2}
  MaxSaves = 2
  MaxEditRevision = 1
  f_e1 = f_e1
  f_e2 = f_e2
  f_p1 = f_p1
  f_a1 = f_a1
  EmploymentIds = {f_e1, f_e2}
  PositionIds = {f_p1}
  AssignmentIds = {f_a1}
  FactRequests = {fq1, fq2}
  FactCommands <- MCFactCommands
  ContextReaders = {fx1}
  OpenEnded = 3
  SqlFragments <- MCSqlFragments
  MaxFragments = 4
  MaxBindings = 2
  PoolUsers = {pu1, pu2}
  PoolConnections = {pc1}
  NoConnection = NoConnection
  CloseCalls = {cl1, cl2}
  tn1 = tn1
  tn2 = tn2
  tn3 = tn3
  Nodes = {tn1, tn2, tn3}
  Recorded = tn1
  TelemetryShapes <- MCTelemetryShapes
  MaxDepth = 2
  MaxFields = 2
  StackDepth = 8
INVARIANTS PlatformTypeOK   AdministrationIsSound  ProcessesAreSound  
CHECK_DEADLOCK FALSE
