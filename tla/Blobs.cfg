SPECIFICATION Spec
CONSTANTS
  Ids = {u1, u2, u3}
  Free = free
  Get = get
  Mail = mail
  Unlink = unlink
  ImapAsks = {{u1, u2}, {u1, get}, {u1, unlink}, {mail, unlink}}
  JmapAsks = {{u1}, {mail}}
  MAX_CONCURRENT_UPLOADS = 2
  MAX_ATTACHMENTS_BYTES = 2
  UPLOAD_QUOTA_BYTES = 2
  MAX_UPLOADS_PER_ACCOUNT = 2
  UPLOAD_TTL = 1
  FORWARD_CHUNKS = 1
  BLOB_BUFFER_WINDOWS = 2
  BODY_WINDOW_BYTES = 1
  BLOB_DOWNLOAD_LIMIT = 2
  MailSizes = {2}
  MaxFaults = 1
INVARIANTS WithinBounds EndsAreTold
PROPERTIES KeepsItsPromise LeavesNothing
CHECK_DEADLOCK FALSE
