SPECIFICATION Spec
CONSTANTS
  Requests = {1, 2, 3, 4, 5, 6}
  MaxPhotos = 2
  Budget <- EachFault
  None = None
VIEW Live
CHECK_DEADLOCK FALSE
INVARIANTS
  DeletedPhotosStayDeleted
  PhotosAreTheFiles
