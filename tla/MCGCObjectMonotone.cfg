CONSTANTS
  w1 = w1
  w2 = w2
  Workers <- MCWorkers
  Objects = {1, 2, 3}
  DeleteAt <- MCDeleteAt
  GCStartHeight = 1
  GCObjectBlockInterval = 1
  GCSafeBlockDistance = 1
  QueueCap = 1
  GCTimeout = 1
  GCMaxRetry = 0
  MaxHeight = 5
  MaxTime = 3
  MaxManagerRestarts = 1

SPECIFICATION Spec
SYMMETRY WorkerSymmetry





PROPERTY GCProgressMonotone
